---- MODULE Spec2Model ----
(***************************************************************************)
(* Legacy-data migration of the VRM add-on (io_scene_vrm/editor/vrm0/       *)
(* migration.py): the field migrators, the collider/bone-group graph        *)
(* reconstruction and the orchestrator, as a state machine over one rig;    *)
(* the registration of the add-on with its host (registration.py) and the   *)
(* classification of constraints for export (editor/search.py).             *)
(***************************************************************************)
EXTENDS Integers, Sequences, FiniteSets, TLC

VARIABLES addon_version, armature, vrm0, uuid_counter, initial, hist,
          bpy, objs

vars == <<addon_version, armature, vrm0, uuid_counter, initial, hist,
          bpy, objs>>

(***************************************************************************)
(* The host's registries as the application starts them, before any add-on  *)
(* is enabled: registered translations and classes, the pointer property    *)
(* on Armature, the draw functions of three menus, the load_post handlers.  *)
(***************************************************************************)
FactoryHost ==
  [translations |-> {},
   classes |-> <<>>,
   Armature_vrm_addon_extension |-> FALSE,
   TOPBAR_MT_file_import |-> <<>>,
   TOPBAR_MT_file_export |-> <<>>,
   VIEW3D_MT_armature_add |-> <<>>,
   load_post |-> <<>>]

(***************************************************************************)
(* Bounds of the model.                                                     *)
(***************************************************************************)
\* number of handler invocations followed in one behaviour
MaxCalls == 2
\* number of child objects of the rig
MaxChildren == 3

(***************************************************************************)
(* Python / JSON values.  Every value is a record [t, v]: t is the runtime  *)
(* type, v the payload.  A dict keeps its items as a sequence of            *)
(* <<key, value>> pairs (json.loads builds an OrderedDict).                 *)
(***************************************************************************)
None == [t |-> "none", v |-> 0]
Bool(b) == [t |-> "bool", v |-> b]
Num(n) == [t |-> "num", v |-> n]
Str(s) == [t |-> "str", v |-> s]
List(items) == [t |-> "list", v |-> items]
Dict(pairs) == [t |-> "dict", v |-> pairs]
\* a custom property holding a pointer to a bpy.types.Text datablock
TextRef(name) == [t |-> "text", v |-> name]

\* x is None, isinstance(x, str), isinstance(x, bool), isinstance(x, dict)
IsNone(x) == x.t = "none"
IsStr(x) == x.t = "str"
IsBool(x) == x.t = "bool"
IsDict(x) == x.t = "dict"
\* isinstance(x, (int, float)): bool is a subclass of int in Python
IsNumber(x) == x.t \in {"num", "bool"}
\* the float a numeric property stores: True is 1, False is 0
AsFloat(x) == IF x.t = "bool" THEN (IF x.v THEN 1 ELSE 0) ELSE x.v
\* isinstance(x, abc.Iterable): lists, and also str and dict
IsIterable(x) == x.t \in {"list", "str", "dict"}

\* the characters of the strings the model iterates over
Chars(s) ==
  CASE s = "" -> <<>>
    [] s = "ab" -> <<"a", "b">>
    [] OTHER -> <<s>>

\* for e in x: the elements of a list, the characters of a str, the keys of a dict
Iter(x) ==
  CASE x.t = "list" -> x.v
    [] x.t = "str" -> [i \in 1..Len(Chars(x.v)) |-> Str(Chars(x.v)[i])]
    [] x.t = "dict" -> [i \in 1..Len(x.v) |-> Str(x.v[i][1])]
    [] OTHER -> <<>>

\* d.get(key) on a dict: the value of the last item with that key, else None
Get(d, key) ==
  LET idx == {i \in 1..Len(d.v) : d.v[i][1] = key}
      last == CHOOSE i \in idx : \A j \in idx : j <= i
  IN IF idx = {} THEN None ELSE d.v[last][2]

(***************************************************************************)
(* The host's entity stores (bpy.data), read-only for the migration.        *)
(***************************************************************************)
\* bpy.data.meshes: name -> has shape keys (mesh.shape_keys is None otherwise)
Meshes == {"Face", "Body"}
MeshHasShapeKeys(m) == m = "Face"
KeyBlocks(m) == IF m = "Face" THEN {"Joy"} ELSE {}
Materials == {"Skin"}
Images == {"Thumb"}

(***************************************************************************)
(* migrate_vrm0_humanoid                                                    *)
(***************************************************************************)
\* legacy key -> numeric field of the humanoid record, in source order
HumanoidNumberKeys ==
  <<"armStretch", "legStretch", "upperArmTwist", "lowerArmTwist",
    "upperLegTwist", "lowerLegTwist", "feetSpacing">>

HumanoidNumberKeySet == {HumanoidNumberKeys[i] : i \in 1..Len(HumanoidNumberKeys)}

migrate_vrm0_humanoid(humanoid, humanoid_dict) ==
  IF ~IsDict(humanoid_dict) THEN humanoid
  ELSE [humanoid EXCEPT
          !.nums = [k \in HumanoidNumberKeySet |->
                      IF IsNumber(Get(humanoid_dict, k))
                      THEN AsFloat(Get(humanoid_dict, k)) ELSE @[k]],
          !.has_translation_dof =
              IF IsBool(Get(humanoid_dict, "hasTranslationDoF"))
              THEN Get(humanoid_dict, "hasTranslationDoF").v ELSE @]

(***************************************************************************)
(* migrate_vrm0_meta                                                        *)
(***************************************************************************)
\* armature.get(key): the custom property, None when it is not set
ArmatureGet(arm, key) == arm.props[key]

\* the legacy custom properties copied to the meta record when they are str
MetaStringKeys ==
  {"allowedUserName", "author", "commercialUssageName", "contactInformation",
   "licenseName", "otherLicenseUrl", "otherPermissionUrl", "reference",
   "sexualUssageName", "title", "version", "violentUssageName"}

migrate_vrm0_meta(meta, arm) ==
  [meta EXCEPT
     !.strs = [k \in MetaStringKeys |->
                 IF IsStr(ArmatureGet(arm, k)) THEN ArmatureGet(arm, k).v ELSE @[k]],
     !.texture = IF IsStr(ArmatureGet(arm, "texture"))
                    /\ ArmatureGet(arm, "texture").v \in Images
                 THEN ArmatureGet(arm, "texture").v ELSE @]

(***************************************************************************)
(* common/convert.py is not part of the sources at hand: the two           *)
(* conversions are modelled from the specification.  A valid 3-vector is a  *)
(* JSON object with numeric x, y and z; a valid curve is a list of numbers. *)
(* The result is [ok, val]: ok is FALSE for Python's None.                  *)
(***************************************************************************)
vrm_json_vector3_to_tuple(value) ==
  IF IsDict(value) /\ \A k \in {"x", "y", "z"} : IsNumber(Get(value, k))
  THEN [ok |-> TRUE,
        val |-> <<AsFloat(Get(value, "x")), AsFloat(Get(value, "y")),
                  AsFloat(Get(value, "z"))>>]
  ELSE [ok |-> FALSE, val |-> <<0, 0, 0>>]

vrm_json_curve_to_list(value) ==
  IF value.t = "list" /\ \A i \in 1..Len(value.v) : IsNumber(value.v[i])
  THEN [ok |-> TRUE, val |-> [i \in 1..Len(value.v) |-> AsFloat(value.v[i])]]
  ELSE [ok |-> FALSE, val |-> <<>>]

\* the vector kept in legacy order, for comparison
AxisSwapIdentity(t) == t

\* "Axis confusing": (x, y, z) = t; field = (x, z, y)
AxisSwap(t) == <<t[1], t[3], t[2]>>

(***************************************************************************)
(* migrate_vrm0_first_person                                                *)
(***************************************************************************)
DefaultMeshAnnotation == [mesh |-> "", first_person_flag |-> "Auto"]

\* one pass of the meshAnnotations loop body, after mesh_annotations.add()
MeshAnnotationOf(mesh_annotation_dict) ==
  IF ~IsDict(mesh_annotation_dict) THEN DefaultMeshAnnotation
  ELSE LET mesh == Get(mesh_annotation_dict, "mesh")
           flag == Get(mesh_annotation_dict, "firstPersonFlag")
       IN [mesh |-> IF IsStr(mesh) /\ mesh.v \in Meshes THEN mesh.v ELSE "",
           first_person_flag |-> IF IsStr(flag) THEN flag.v ELSE "Auto"]

\* legacy key of each of the four look-at records
LookAtKeys ==
  {"lookAtHorizontalInner", "lookAtHorizontalOuter", "lookAtVerticalDown",
   "lookAtVerticalUp"}

LookAtOf(look_at, look_at_dict) ==
  IF ~IsDict(look_at_dict) THEN look_at
  ELSE LET curve == vrm_json_curve_to_list(Get(look_at_dict, "curve"))
           x_range == Get(look_at_dict, "xRange")
           y_range == Get(look_at_dict, "yRange")
       IN [curve |-> IF curve.ok THEN curve.val ELSE look_at.curve,
           x_range |-> IF IsNumber(x_range) THEN AsFloat(x_range) ELSE look_at.x_range,
           y_range |-> IF IsNumber(y_range) THEN AsFloat(y_range) ELSE look_at.y_range]

migrate_vrm0_first_person(first_person, first_person_dict) ==
  IF ~IsDict(first_person_dict) THEN first_person
  ELSE LET first_person_bone == Get(first_person_dict, "firstPersonBone")
           first_person_bone_offset ==
             vrm_json_vector3_to_tuple(Get(first_person_dict, "firstPersonBoneOffset"))
           mesh_annotation_dicts == Get(first_person_dict, "meshAnnotations")
           look_at_type_name == Get(first_person_dict, "lookAtTypeName")
           items == Iter(mesh_annotation_dicts)
       IN [first_person EXCEPT
             !.first_person_bone =
                 IF IsStr(first_person_bone) THEN first_person_bone.v ELSE @,
             !.first_person_bone_offset =
                 IF first_person_bone_offset.ok
                 THEN AxisSwap(first_person_bone_offset.val) ELSE @,
             !.mesh_annotations =
                 IF IsIterable(mesh_annotation_dicts)
                 THEN @ \o [i \in 1..Len(items) |-> MeshAnnotationOf(items[i])]
                 ELSE @,
             !.look_at_type_name =
                 IF IsStr(look_at_type_name) /\ look_at_type_name.v \in {"Bone", "BlendShape"}
                 THEN look_at_type_name.v ELSE @,
             !.look_at = [k \in LookAtKeys |-> LookAtOf(@[k], Get(first_person_dict, k))]]

(***************************************************************************)
(* migrate_vrm0_blend_shape_groups.  The host raises TypeError when a       *)
(* non-str is assigned to a string or enum property (name, preset_name),    *)
(* and mesh.shape_keys is None for a mesh without shape keys, so            *)
(* mesh.shape_keys.key_blocks raises AttributeError.  A migrator that can   *)
(* raise returns [rec, raised]: rec is the record as the exception left it. *)
(* Which strings the preset_name enum accepts is not modelled.              *)
(***************************************************************************)
DefaultBind == [mesh |-> "", index |-> "", weight |-> 0]

\* one pass of the binds loop body, after binds.add()
BindOf(bind_dict) ==
  IF ~IsDict(bind_dict) THEN [rec |-> DefaultBind, raised |-> FALSE]
  ELSE LET mesh == Get(bind_dict, "mesh")
           index == Get(bind_dict, "index")
           weight == Get(bind_dict, "weight")
           found == IsStr(mesh) /\ mesh.v \in Meshes
           raises == found /\ IsStr(index) /\ ~MeshHasShapeKeys(mesh.v)
       IN [rec |->
             [mesh |-> IF found THEN mesh.v ELSE "",
              index |-> IF found /\ IsStr(index) /\ ~raises
                           /\ index.v \in KeyBlocks(mesh.v)
                        THEN index.v ELSE "",
              weight |-> IF ~raises /\ IsNumber(weight) THEN AsFloat(weight) ELSE 0],
           raised |-> raises]

RECURSIVE AddBinds(_, _, _)
AddBinds(binds, items, i) ==
  IF i > Len(items) THEN [rec |-> binds, raised |-> FALSE]
  ELSE LET b == BindOf(items[i])
       IN IF b.raised THEN [rec |-> Append(binds, b.rec), raised |-> TRUE]
          ELSE AddBinds(Append(binds, b.rec), items, i + 1)

DefaultMaterialValue == [material |-> "", property_name |-> "", target_value |-> <<>>]

\* one pass of the materialValues loop body, after material_values.add()
MaterialValueOf(material_value_dict) ==
  IF ~IsDict(material_value_dict) THEN DefaultMaterialValue
  ELSE LET material_name == Get(material_value_dict, "materialName")
           property_name == Get(material_value_dict, "propertyName")
           target_value_vector == Get(material_value_dict, "targetValue")
           vs == Iter(target_value_vector)
       IN [material |-> IF IsStr(material_name) /\ material_name.v \in Materials
                        THEN material_name.v ELSE "",
           property_name |-> IF IsStr(property_name) THEN property_name.v ELSE "",
           target_value |->
             IF IsIterable(target_value_vector)
             THEN [i \in 1..Len(vs) |-> IF IsNumber(vs[i]) THEN AsFloat(vs[i]) ELSE 0]
             ELSE <<>>]

DefaultBlendShapeGroup ==
  [name |-> "", preset_name |-> "unknown", binds |-> <<>>,
   material_values |-> <<>>, is_binary |-> FALSE]

\* one pass of the outer loop body, after blend_shape_groups.add()
BlendShapeGroupOf(blend_shape_group_dict) ==
  IF ~IsDict(blend_shape_group_dict)
  THEN [rec |-> DefaultBlendShapeGroup, raised |-> FALSE]
  ELSE
    LET name == Get(blend_shape_group_dict, "name")
        preset_name == Get(blend_shape_group_dict, "presetName")
        bind_dicts == Get(blend_shape_group_dict, "binds")
        material_value_dicts == Get(blend_shape_group_dict, "materialValues")
        is_binary == Get(blend_shape_group_dict, "isBinary")
        g1 == [DefaultBlendShapeGroup EXCEPT !.name = IF IsNone(name) THEN @ ELSE name.v]
        g2 == [g1 EXCEPT !.preset_name = IF IsNone(preset_name) THEN @ ELSE preset_name.v]
        binds == IF IsIterable(bind_dicts) THEN AddBinds(<<>>, Iter(bind_dicts), 1)
                 ELSE [rec |-> <<>>, raised |-> FALSE]
        g3 == [g2 EXCEPT !.binds = binds.rec]
        mvs == Iter(material_value_dicts)
        g4 == [g3 EXCEPT
                 !.material_values =
                     IF IsIterable(material_value_dicts)
                     THEN [i \in 1..Len(mvs) |-> MaterialValueOf(mvs[i])] ELSE @,
                 !.is_binary = IF IsBool(is_binary) THEN is_binary.v ELSE @]
    IN CASE ~IsNone(name) /\ ~IsStr(name) ->
              [rec |-> DefaultBlendShapeGroup, raised |-> TRUE]
         [] ~IsNone(preset_name) /\ ~IsStr(preset_name) -> [rec |-> g1, raised |-> TRUE]
         [] binds.raised -> [rec |-> g3, raised |-> TRUE]
         [] OTHER -> [rec |-> g4, raised |-> FALSE]

\* the loop with the type test ahead of blend_shape_groups.add(), for comparison
RECURSIVE AddBlendShapeGroupsOfDicts(_, _, _)
AddBlendShapeGroupsOfDicts(groups, items, i) ==
  IF i > Len(items) THEN [rec |-> groups, raised |-> FALSE]
  ELSE IF ~IsDict(items[i]) THEN AddBlendShapeGroupsOfDicts(groups, items, i + 1)
  ELSE LET g == BlendShapeGroupOf(items[i])
       IN IF g.raised THEN [rec |-> Append(groups, g.rec), raised |-> TRUE]
          ELSE AddBlendShapeGroupsOfDicts(Append(groups, g.rec), items, i + 1)

RECURSIVE AddBlendShapeGroups(_, _, _)
AddBlendShapeGroups(groups, items, i) ==
  IF i > Len(items) THEN [rec |-> groups, raised |-> FALSE]
  ELSE LET g == BlendShapeGroupOf(items[i])
       IN IF g.raised THEN [rec |-> Append(groups, g.rec), raised |-> TRUE]
          ELSE AddBlendShapeGroups(Append(groups, g.rec), items, i + 1)

migrate_vrm0_blend_shape_groups(blend_shape_groups, blend_shape_group_dicts) ==
  IF ~IsIterable(blend_shape_group_dicts)
  THEN [rec |-> blend_shape_groups, raised |-> FALSE]
  ELSE AddBlendShapeGroups(blend_shape_groups, Iter(blend_shape_group_dicts), 1)

(***************************************************************************)
(* migrate_vrm0_secondary_animation                                         *)
(***************************************************************************)
\* the filter without its parent-bone test, for comparison
IsColliderObjectAnyParent(arm, child) ==
  /\ child.type = "EMPTY"
  /\ child.empty_display_type = "SPHERE"
  /\ child.parent_type = "BONE"

\* the filter of the list comprehension over armature.children
IsColliderObject(arm, child) ==
  /\ child.type = "EMPTY"
  /\ child.empty_display_type = "SPHERE"
  /\ child.parent_type = "BONE"
  /\ child.parent_bone \in arm.bones

\* the keys of bone_name_to_collider_objects, in insertion order
RECURSIVE BoneNamesOf(_, _, _)
BoneNamesOf(collider_objects, i, names) ==
  IF i > Len(collider_objects) THEN names
  ELSE LET b == collider_objects[i].parent_bone
       IN BoneNamesOf(collider_objects, i + 1,
                      IF \E j \in 1..Len(names) : names[j] = b THEN names
                      ELSE Append(names, b))

\* collider_group.name before the first refresh
NoName == <<>>

\* secondary_animation.collider_groups.add() with uuid, node and colliders set
NewColliderGroup(bone_name, collider_objects, uuid) ==
  LET mine == SelectSeq(collider_objects, LAMBDA c : c.parent_bone = bone_name)
  IN [uuid |-> uuid, node |-> bone_name,
      colliders |-> [i \in 1..Len(mine) |-> mine[i].name],
      name |-> NoName, refreshed |-> FALSE]

(***************************************************************************)
(* refresh of a collider group and of a bone group lives in                 *)
(* property_group.py, which is not part of the sources at hand; modelled    *)
(* from the specification: it recomputes the derived state (the generated   *)
(* name of a collider group, the cached geometry of both), is idempotent    *)
(* and leaves the state stale when the referenced bone is not in the rig.   *)
(***************************************************************************)
ColliderGroupRefresh(collider_group, arm) ==
  IF collider_group.node \in arm.bones
  THEN [collider_group EXCEPT
          !.name = <<collider_group.node, collider_group.uuid>>,
          !.refreshed = TRUE]
  ELSE collider_group

BoneGroupRefresh(bone_group, arm) ==
  IF bone_group.center = "" \/ bone_group.center \in arm.bones
  THEN [bone_group EXCEPT !.refreshed = TRUE]
  ELSE bone_group

DefaultBoneGroup ==
  [comment |-> "", stiffiness |-> 0, gravity_power |-> 0, gravity_dir |-> <<0, 0, 0>>,
   drag_force |-> 0, center |-> "", hit_radius |-> 0, bones |-> <<>>,
   collider_groups |-> <<>>, refreshed |-> FALSE]

\* the last matching collider group instead of the first, for comparison
ColliderGroupRefsOfLast(collider_groups, collider_group_node_name) ==
  LET hits == {j \in 1..Len(collider_groups) :
                 collider_groups[j].node = collider_group_node_name.v}
      last == CHOOSE j \in hits : \A k \in hits : k <= j
  IN IF ~IsStr(collider_group_node_name) \/ hits = {} THEN <<>>
     ELSE <<collider_groups[last].name>>

\* the references one colliderGroups entry appends: the name of the first
\* collider group whose node value equals the entry, nothing otherwise
ColliderGroupRefsOf(collider_groups, collider_group_node_name) ==
  LET hits == {j \in 1..Len(collider_groups) :
                 collider_groups[j].node = collider_group_node_name.v}
      first == CHOOSE j \in hits : \A k \in hits : j <= k
  IN IF ~IsStr(collider_group_node_name) \/ hits = {} THEN <<>>
     ELSE <<collider_groups[first].name>>

RECURSIVE AddColliderGroupRefs(_, _, _, _)
AddColliderGroupRefs(refs, collider_groups, items, i) ==
  IF i > Len(items) THEN refs
  ELSE AddColliderGroupRefs(refs \o ColliderGroupRefsOf(collider_groups, items[i]),
                            collider_groups, items, i + 1)

\* one pass of the bone-group loop body, after bone_groups.add()
BoneGroupOf(bone_group_dict, collider_groups) ==
  IF ~IsDict(bone_group_dict) THEN DefaultBoneGroup
  ELSE
    LET comment == Get(bone_group_dict, "comment")
        stiffiness == Get(bone_group_dict, "stiffiness")
        gravity_power == Get(bone_group_dict, "gravityPower")
        gravity_dir == vrm_json_vector3_to_tuple(Get(bone_group_dict, "gravityDir"))
        drag_force == Get(bone_group_dict, "dragForce")
        center == Get(bone_group_dict, "center")
        hit_radius == Get(bone_group_dict, "hitRadius")
        bones == Get(bone_group_dict, "bones")
        bs == Iter(bones)
        collider_group_node_names == Get(bone_group_dict, "colliderGroups")
    IN [comment |-> IF IsStr(comment) THEN comment.v ELSE "",
        stiffiness |-> IF IsNumber(stiffiness) THEN AsFloat(stiffiness) ELSE 0,
        gravity_power |-> IF IsNumber(gravity_power) THEN AsFloat(gravity_power) ELSE 0,
        gravity_dir |-> IF gravity_dir.ok THEN AxisSwap(gravity_dir.val) ELSE <<0, 0, 0>>,
        drag_force |-> IF IsNumber(drag_force) THEN AsFloat(drag_force) ELSE 0,
        center |-> IF IsStr(center) THEN center.v ELSE "",
        hit_radius |-> IF IsNumber(hit_radius) THEN AsFloat(hit_radius) ELSE 0,
        bones |-> IF IsIterable(bones)
                  THEN [i \in 1..Len(bs) |-> IF IsStr(bs[i]) THEN bs[i].v ELSE ""]
                  ELSE <<>>,
        collider_groups |->
          IF IsIterable(collider_group_node_names)
          THEN AddColliderGroupRefs(<<>>, collider_groups,
                                    Iter(collider_group_node_names), 1)
          ELSE <<>>,
        refreshed |-> FALSE]

\* returns [rec, next_uuid]: uuid.uuid4() is modelled as a fresh number
migrate_vrm0_secondary_animation(secondary_animation, bone_group_dicts, arm, uuid) ==
  LET collider_objects == SelectSeq(arm.children, LAMBDA c : IsColliderObject(arm, c))
      bone_names == BoneNamesOf(collider_objects, 1, <<>>)
      added == [i \in 1..Len(bone_names) |->
                  NewColliderGroup(bone_names[i], collider_objects, uuid + i - 1)]
      all == secondary_animation.collider_groups \o added
      collider_groups == [i \in 1..Len(all) |-> ColliderGroupRefresh(all[i], arm)]
      items == IF IsIterable(bone_group_dicts) THEN Iter(bone_group_dicts) ELSE <<>>
      bone_groups == secondary_animation.bone_groups
                       \o [i \in 1..Len(items) |-> BoneGroupOf(items[i], collider_groups)]
  IN [rec |-> [collider_groups |-> collider_groups,
               bone_groups |-> [i \in 1..Len(bone_groups) |->
                                  BoneGroupRefresh(bone_groups[i], arm)]],
      next_uuid |-> uuid + Len(bone_names)]

(***************************************************************************)
(* read_textblock_json.  A text datablock is modelled by what json.loads    *)
(* makes of its joined lines: [valid, json], valid FALSE when the text is   *)
(* not JSON (JSONDecodeError, suppressed).  The result is None for absent.  *)
(***************************************************************************)
json_loads(textblock) == IF textblock.valid THEN textblock.json ELSE None

\* read_textblock_json without its first branch, for comparison
read_textblock_json_named_only(arm, armature_key) ==
  LET text_key == ArmatureGet(arm, armature_key)
  IN IF IsStr(text_key) /\ text_key.v \in DOMAIN arm.texts
     THEN json_loads(arm.texts[text_key.v]) ELSE None

read_textblock_json(arm, armature_key) ==
  LET text_key == ArmatureGet(arm, armature_key)
  IN CASE text_key.t = "text" -> json_loads(arm.texts[text_key.v])
       [] ~IsStr(text_key) -> None
       [] text_key.v \notin DOMAIN arm.texts -> None
       [] OTHER -> json_loads(arm.texts[text_key.v])

(***************************************************************************)
(* migrate_legacy_custom_properties                                         *)
(***************************************************************************)
\* HumanBoneSpecifications.all_names lives in common/human_bone.py, not part
\* of the sources at hand: a closed, ordered role set, here three of its roles
all_names == <<"hips", "head", "leftUpperArm">>

\* tuple(ext.addon_version) >= (2, 0, 1): Python compares tuples lexicographically
VersionGE(a, b) ==
  \/ a[1] > b[1]
  \/ a[1] = b[1] /\ a[2] > b[2]
  \/ a[1] = b[1] /\ a[2] = b[2] /\ a[3] >= b[3]

GateVersion == <<2, 0, 1>>

\* the inner loop: the first human bone with that role gets the bone name
SetHumanBoneNode(human_bones, human_bone_name, bpy_bone_name) ==
  LET hits == {j \in 1..Len(human_bones) : human_bones[j].bone = human_bone_name}
      first == CHOOSE j \in hits : \A k \in hits : j <= k
  IN IF hits = {} THEN human_bones
     ELSE [human_bones EXCEPT ![first].node = bpy_bone_name]

\* the loop over all_names, with assigned_bpy_bone_names as accumulator
RECURSIVE AssignHumanBones(_, _, _, _)
AssignHumanBones(human_bones, arm, i, assigned_bpy_bone_names) ==
  IF i > Len(all_names) THEN human_bones
  ELSE LET bpy_bone_name == arm.data_props[all_names[i]]
       IN IF ~IsStr(bpy_bone_name) \/ bpy_bone_name.v = ""
             \/ bpy_bone_name.v \in assigned_bpy_bone_names
          THEN AssignHumanBones(human_bones, arm, i + 1, assigned_bpy_bone_names)
          ELSE AssignHumanBones(
                 SetHumanBoneNode(human_bones, all_names[i], bpy_bone_name.v),
                 arm, i + 1, assigned_bpy_bone_names \cup {bpy_bone_name.v})

\* the state a pass works on: the document, ext.addon_version, the uuid
\* source, whether an exception is propagating, and how many of the six
\* steps have completed
WithBlendShapeGroups(st, r) ==
  [st EXCEPT !.doc.blend_shape_master.blend_shape_groups = r.rec,
             !.raised = r.raised,
             !.steps = IF r.raised THEN 1 ELSE 2]

WithSecondaryAnimation(st, r) ==
  [st EXCEPT !.doc.secondary_animation = r.rec, !.uuid = r.next_uuid, !.steps = 5]

LegacyStep(st, arm, n) ==
  CASE n = 1 ->
         [st EXCEPT !.doc.meta = migrate_vrm0_meta(@, arm), !.steps = 1]
    [] n = 2 ->
         WithBlendShapeGroups(
           st, migrate_vrm0_blend_shape_groups(
                 st.doc.blend_shape_master.blend_shape_groups,
                 read_textblock_json(arm, "blendshape_group")))
    [] n = 3 ->
         [st EXCEPT !.doc.first_person =
                        migrate_vrm0_first_person(
                          @, read_textblock_json(arm, "firstPerson_params")),
                    !.steps = 3]
    [] n = 4 ->
         [st EXCEPT !.doc.humanoid =
                        migrate_vrm0_humanoid(
                          @, read_textblock_json(arm, "humanoid_params")),
                    !.steps = 4]
    [] n = 5 ->
         WithSecondaryAnimation(
           st, migrate_vrm0_secondary_animation(
                 st.doc.secondary_animation,
                 read_textblock_json(arm, "spring_bone"), arm, st.uuid))
    [] n = 6 ->
         [st EXCEPT !.doc.humanoid.human_bones = AssignHumanBones(@, arm, 1, {}),
                    !.steps = 6]

\* steps n .. upto in order, stopping when one raises
RECURSIVE LegacySteps(_, _, _, _)
LegacySteps(st, arm, n, upto) ==
  IF n > upto \/ st.raised THEN st
  ELSE LegacySteps(LegacyStep(st, arm, n), arm, n + 1, upto)

NumLegacySteps == 6

\* the state on entry of a pass
PassState(doc, version, uuid) ==
  [doc |-> doc, version |-> version, uuid |-> uuid, raised |-> FALSE, steps |-> 0]

migrate_legacy_custom_properties(doc, arm, version, uuid) ==
  IF VersionGE(version, GateVersion)
  THEN PassState(doc, version, uuid)
  ELSE LegacySteps(PassState(doc, version, uuid), arm, 1, NumLegacySteps)

(***************************************************************************)
(* is_unnecessary and migrate                                               *)
(***************************************************************************)
\* truthy iff the first-person bone is set or no head human bone has a node
is_unnecessary(doc) ==
  \/ doc.first_person.first_person_bone # ""
  \/ \A i \in 1..Len(doc.humanoid.human_bones) :
       \/ doc.humanoid.human_bones[i].bone # "head"
       \/ doc.humanoid.human_bones[i].node = ""

(***************************************************************************)
(* Vrm0HumanoidPropertyGroup (property_group.py) is not part of the sources *)
(* at hand; its two static methods are modelled from the specification:     *)
(* the fixup keeps one entry per role of the closed role set, and the       *)
(* bone-name cache is re-derived from the live rig.                         *)
(***************************************************************************)
fixup_human_bones(human_bones) ==
  LET roles == {all_names[i] : i \in 1..Len(all_names)}
      keep(i) == /\ human_bones[i].bone \in roles
                 /\ \A j \in 1..(i - 1) : human_bones[j].bone # human_bones[i].bone
      RECURSIVE kept(_)
      kept(i) == IF i > Len(human_bones) THEN <<>>
                 ELSE (IF keep(i) THEN <<human_bones[i]>> ELSE <<>>) \o kept(i + 1)
      have == {human_bones[i].bone : i \in 1..Len(human_bones)}
      RECURSIVE missing(_)
      missing(i) == IF i > Len(all_names) THEN <<>>
                    ELSE (IF all_names[i] \in have THEN <<>>
                          ELSE <<[bone |-> all_names[i], node |-> ""]>>) \o missing(i + 1)
  IN kept(1) \o missing(1)

check_last_bone_names_and_update(arm) == arm.bones

\* lines 421-424: refresh of every collider group and every bone group
RefreshAll(secondary_animation, arm) ==
  [collider_groups |->
     [i \in 1..Len(secondary_animation.collider_groups) |->
        ColliderGroupRefresh(secondary_animation.collider_groups[i], arm)],
   bone_groups |->
     [i \in 1..Len(secondary_animation.bone_groups) |->
        BoneGroupRefresh(secondary_animation.bone_groups[i], arm)]]

\* lines 426-430: the first-person bone, when empty, takes the node of the
\* first human bone whose role is head
BackfillFirstPersonBone(doc) ==
  LET hbs == doc.humanoid.human_bones
      hits == {i \in 1..Len(hbs) : hbs[i].bone = "head"}
      first == CHOOSE i \in hits : \A k \in hits : i <= k
  IN IF doc.first_person.first_person_bone # "" \/ hits = {} THEN doc
     ELSE [doc EXCEPT !.first_person.first_person_bone = hbs[first].node]

\* the statements of migrate before the call of migrate_legacy_custom_properties
MigratePrologue(doc, arm) ==
  BackfillFirstPersonBone(
    [doc EXCEPT !.humanoid.human_bones = fixup_human_bones(@),
                !.secondary_animation = RefreshAll(@, arm)])

\* the statements of migrate after the call; skipped when it raised
MigrateEpilogue(st, arm) ==
  IF st.raised THEN st
  ELSE [st EXCEPT !.doc.humanoid.last_bone_names = check_last_bone_names_and_update(arm)]

\* migrate followed by a version stamp, for comparison: the code has none
migrate_stamping(doc, arm, version, uuid) ==
  [MigrateEpilogue(
     migrate_legacy_custom_properties(MigratePrologue(doc, arm), arm, version, uuid),
     arm) EXCEPT !.version = GateVersion]

migrate(doc, arm, version, uuid) ==
  MigrateEpilogue(
    migrate_legacy_custom_properties(MigratePrologue(doc, arm), arm, version, uuid),
    arm)

(***************************************************************************)
(* The rig and the document at construction.  The defaults of the property  *)
(* groups are declared in property_group.py, not part of the sources at     *)
(* hand: empty strings, zeros, empty collections.                           *)
(***************************************************************************)
DefaultLookAt == [curve |-> <<>>, x_range |-> 0, y_range |-> 0]

DefaultVrm0 ==
  [meta |-> [strs |-> [k \in MetaStringKeys |-> ""], texture |-> ""],
   blend_shape_master |-> [blend_shape_groups |-> <<>>],
   first_person |->
     [first_person_bone |-> "", first_person_bone_offset |-> <<0, 0, 0>>,
      mesh_annotations |-> <<>>, look_at_type_name |-> "Bone",
      look_at |-> [k \in LookAtKeys |-> DefaultLookAt]],
   humanoid |->
     [nums |-> [k \in HumanoidNumberKeySet |-> 0], has_translation_dof |-> FALSE,
      human_bones |-> <<>>, last_bone_names |-> {}],
   secondary_animation |-> [collider_groups |-> <<>>, bone_groups |-> <<>>]]

\* a document a user has already worked on: roles assigned, shaping numbers
\* set, a collider group and a bone group whose derived state is stale
EditedVrm0 ==
  [DefaultVrm0 EXCEPT
     !.meta.strs["author"] = "Bob",
     !.first_person.first_person_bone_offset = <<7, 8, 9>>,
     !.humanoid.nums = [k \in HumanoidNumberKeySet |-> 7],
     !.humanoid.human_bones =
         <<[bone |-> "head", node |-> "Head"], [bone |-> "hips", node |-> ""],
           [bone |-> "leftUpperArm", node |-> ""]>>,
     !.humanoid.last_bone_names = {"Old"},
     !.secondary_animation.collider_groups =
         <<[uuid |-> 0, node |-> "Head", colliders |-> <<0>>, name |-> NoName,
            refreshed |-> FALSE]>>,
     !.secondary_animation.bone_groups =
         <<[DefaultBoneGroup EXCEPT !.gravity_dir = <<7, 8, 9>>, !.stiffiness = 7]>>]

InitialDocs == {DefaultVrm0, EditedVrm0}

\* armature.data.bones of the rig
RigBones == {"Head", "Hips"}

\* every custom property key the migration reads from the armature object
TextKeys == {"blendshape_group", "firstPerson_params", "humanoid_params", "spring_bone"}
PropKeys == MetaStringKeys \cup {"texture"} \cup TextKeys

NoProps == [k \in PropKeys |-> None]
NoDataProps == [i \in {all_names[j] : j \in 1..Len(all_names)} |-> None]

\* a text datablock holding the JSON text of value j, and one that is not JSON
JsonText(j) == [valid |-> TRUE, json |-> j]
BrokenText == [valid |-> FALSE, json |-> None]

\* children of the rig: name is the position in armature.children
Child(type, display, parent_type, parent_bone) ==
  [type |-> type, empty_display_type |-> display, parent_type |-> parent_type,
   parent_bone |-> parent_bone]

ChildKinds ==
  {Child("EMPTY", "SPHERE", "BONE", "Head"), Child("EMPTY", "SPHERE", "BONE", "Hips"),
   Child("EMPTY", "SPHERE", "BONE", "Tail"), Child("MESH", "SPHERE", "BONE", "Head"),
   Child("EMPTY", "CUBE", "BONE", "Hips"), Child("EMPTY", "SPHERE", "OBJECT", "Head")}

Named(kinds) ==
  [i \in 1..Len(kinds) |->
     [name |-> i, type |-> kinds[i].type,
      empty_display_type |-> kinds[i].empty_display_type,
      parent_type |-> kinds[i].parent_type, parent_bone |-> kinds[i].parent_bone]]

\* a rig whose section key is attached as text t (a str naming the datablock)
RigWith(props, texts, data_props, children) ==
  [props |-> props @@ NoProps, texts |-> texts, data_props |-> data_props @@ NoDataProps,
   children |-> children, bones |-> RigBones]

\* the rig with the four JSON sections attached as text datablocks named by
\* str custom properties; a section that is None has no attachment
Rig(meta_props, sections, data_props, children) ==
  LET keys == {k \in TextKeys : ~IsNone(sections[k])}
  IN RigWith([k \in keys |-> Str(k)] @@ meta_props,
             [k \in keys |-> JsonText(sections[k])], data_props, children)

Sections(b, f, h, s) ==
  [blendshape_group |-> b, firstPerson_params |-> f, humanoid_params |-> h,
   spring_bone |-> s]

NoSectionsAtAll == Sections(None, None, None, None)

Vec(x, y, z) == Dict(<<<<"x", Num(x)>>, <<"y", Num(y)>>, <<"z", Num(z)>>>>)

(***************************************************************************)
(* Inputs of the orchestrator runs: every section present or not, together. *)
(***************************************************************************)
Versions ==
  {<<0, 0, 0>>, <<1, 0, 0>>, <<1, 9, 9>>, <<2, 0, 0>>, <<2, 0, 1>>, <<2, 1, 0>>,
   <<3, 0, 0>>}

NoMeta == ("author" :> None) @@ ("title" :> None) @@ ("texture" :> None)

MetaChoices ==
  {NoMeta, ("author" :> Str("Alice")) @@ ("title" :> Num(3)) @@ ("texture" :> Str("Thumb"))}

BlendChoices ==
  {None,
   List(<<Dict(<<<<"name", Str("Joy")>>, <<"isBinary", Bool(TRUE)>>>>)>>),
   List(<<Dict(<<<<"name", Num(5)>>>>)>>)}

FirstPersonChoices ==
  {None,
   Dict(<<<<"firstPersonBoneOffset", Vec(1, 2, 3)>>,
          <<"meshAnnotations", List(<<Dict(<<<<"mesh", Str("Face")>>>>)>>)>>>>)}

HumanoidChoices ==
  {None, Dict(<<<<"armStretch", Num(2)>>, <<"hasTranslationDoF", Bool(TRUE)>>>>)}

SpringChoices ==
  {None,
   List(<<Dict(<<<<"comment", Str("hair")>>, <<"gravityDir", Vec(1, 2, 3)>>,
                 <<"bones", List(<<Str("Head")>>)>>,
                 <<"colliderGroups", List(<<Str("Head")>>)>>>>)>>)}

ChildrenChoices ==
  {<<>>,
   Named(<<Child("EMPTY", "SPHERE", "BONE", "Head"),
           Child("EMPTY", "SPHERE", "BONE", "Head")>>)}

DataPropChoices ==
  {NoDataProps, ("head" :> Str("Head")) @@ NoDataProps,
   ("head" :> Str("Head")) @@ ("hips" :> Str("Head")) @@ NoDataProps}

OrchestratorRigs ==
  {Rig(m, Sections(b, f, h, s), d, c) :
     m \in MetaChoices, b \in BlendChoices, f \in FirstPersonChoices,
     h \in HumanoidChoices, s \in SpringChoices, d \in DataPropChoices,
     c \in ChildrenChoices}

(***************************************************************************)
(* The state machine.  vrm0 is armature.data.vrm_addon_extension.vrm0,      *)
(* addon_version its sibling ext.addon_version; initial is the document at  *)
(* construction and hist the record of the calls made so far: which         *)
(* function was called, whether it raised, how many legacy steps completed  *)
(* and the document it left.                                                *)
(***************************************************************************)
Init ==
  /\ addon_version \in Versions
  /\ armature \in OrchestratorRigs
  /\ vrm0 \in InitialDocs
  /\ uuid_counter = 1
  /\ initial = vrm0
  /\ hist = <<>>
  /\ bpy = FactoryHost
  /\ objs = <<>>

\* what a call leaves behind
Record(op, st) ==
  /\ vrm0' = st.doc
  /\ addon_version' = st.version
  /\ uuid_counter' = st.uuid
  /\ hist' = Append(hist, [op |-> op, raised |-> st.raised, steps |-> st.steps,
                           doc |-> st.doc])
  /\ UNCHANGED <<armature, initial, bpy, objs>>

\* migrate(vrm0, armature)
Migrate ==
  /\ Len(hist) < MaxCalls
  /\ Record("migrate", migrate(vrm0, armature, addon_version, uuid_counter))

\* migrate_legacy_custom_properties(armature), called on its own
MigrateLegacyCustomProperties ==
  /\ Len(hist) < MaxCalls
  /\ Record("legacy",
            migrate_legacy_custom_properties(vrm0, armature, addon_version,
                                             uuid_counter))

Next == Migrate \/ MigrateLegacyCustomProperties

Spec == Init /\ [][Next]_vars

\* the document before the i-th call
Before(i) == IF i = 1 THEN initial ELSE hist[i - 1].doc

(***************************************************************************)
(* A pass aborted by a fault of the host's store.  Any access to the host   *)
(* between two steps of lines 377-408 may raise; the pass then ends with    *)
(* the first k steps done, or, inside step 2, with the first j blend-shape  *)
(* groups of the list added.                                                *)
(***************************************************************************)
\* the elements the loop of migrate_vrm0_blend_shape_groups runs over
BlendShapeItems(dicts) == IF IsIterable(dicts) THEN Iter(dicts) ELSE <<>>

FaultInList(st, items, j) ==
  IF j > 0 /\ j <= Len(items)
  THEN [st EXCEPT
          !.doc.blend_shape_master.blend_shape_groups =
              AddBlendShapeGroups(@, SubSeq(items, 1, j), 1).rec,
          !.raised = TRUE]
  ELSE [st EXCEPT !.raised = TRUE]

FaultedLegacyPass(doc, arm, version, uuid, k, j) ==
  FaultInList(LegacySteps(PassState(doc, version, uuid), arm, 1, k),
              BlendShapeItems(read_textblock_json(arm, "blendshape_group")),
              IF k = 1 THEN j ELSE 0)

\* the longest list prefix a fault is placed after
MaxFaultPrefix == 1

FaultedPass ==
  /\ Len(hist) < MaxCalls
  /\ ~VersionGE(addon_version, GateVersion)
  /\ \E k \in 0..(NumLegacySteps - 1), j \in 0..MaxFaultPrefix :
       /\ j > 0 => k = 1
       /\ Record("fault",
                 FaultedLegacyPass(vrm0, armature, addon_version, uuid_counter, k, j))

FaultVersions == {<<1, 0, 0>>, <<2, 0, 0>>, <<2, 0, 1>>}

\* rigs of the faulted passes: the list-building sections vary
FaultRigs ==
  {Rig(m, Sections(b, f, h, s), d, c) :
     m \in MetaChoices, b \in BlendChoices, f \in FirstPersonChoices \ {None},
     h \in HumanoidChoices \ {None}, s \in SpringChoices,
     d \in {("head" :> Str("Head")) @@ NoDataProps}, c \in ChildrenChoices}

InitFault ==
  /\ addon_version \in FaultVersions
  /\ armature \in FaultRigs
  /\ vrm0 \in InitialDocs
  /\ uuid_counter = 1
  /\ initial = vrm0
  /\ hist = <<>>
  /\ bpy = FactoryHost
  /\ objs = <<>>

NextFault == FaultedPass \/ MigrateLegacyCustomProperties

SpecFault == InitFault /\ [][NextFault]_vars

(***************************************************************************)
(* The field migrators called on their own, on inputs of every JSON type:   *)
(* each behaviour draws one rig and applies one migrator to it.             *)
(***************************************************************************)
HumanoidInputs ==
  {None, Num(1), Bool(TRUE), Str("ab"), List(<<Num(1)>>), Dict(<<>>),
   Dict(<<<<"armStretch", Num(2)>>, <<"feetSpacing", Num(3)>>,
          <<"hasTranslationDoF", Bool(TRUE)>>>>),
   Dict(<<<<"armStretch", Bool(TRUE)>>>>),
   Dict(<<<<"legStretch", Str("2")>>, <<"upperArmTwist", List(<<Num(1)>>)>>,
          <<"hasTranslationDoF", Num(1)>>>>),
   Dict(<<<<"lowerLegTwist", None>>, <<"hasTranslationDoF", Str("true")>>>>)}

FirstPersonInputs ==
  {None, Num(1), Bool(TRUE), Str("ab"), List(<<Num(1)>>), Dict(<<>>),
   Dict(<<<<"firstPersonBone", Str("Hips")>>, <<"firstPersonBoneOffset", Vec(1, 2, 3)>>,
          <<"lookAtTypeName", Str("BlendShape")>>>>),
   Dict(<<<<"firstPersonBone", Num(1)>>,
          <<"firstPersonBoneOffset", List(<<Num(1), Num(2), Num(3)>>)>>,
          <<"lookAtTypeName", Str("Foo")>>>>),
   Dict(<<<<"firstPersonBoneOffset", Dict(<<<<"x", Num(1)>>, <<"y", Num(2)>>>>)>>,
          <<"lookAtTypeName", Num(1)>>>>),
   Dict(<<<<"firstPersonBoneOffset",
            Dict(<<<<"x", Num(1)>>, <<"y", Str("2")>>, <<"z", Num(3)>>>>)>>>>),
   Dict(<<<<"meshAnnotations",
            List(<<Dict(<<<<"mesh", Str("Face")>>,
                          <<"firstPersonFlag", Str("FirstPersonOnly")>>>>),
                   Num(1),
                   Dict(<<<<"mesh", Str("Gone")>>, <<"firstPersonFlag", Num(1)>>>>)>>)>>>>),
   Dict(<<<<"meshAnnotations", Str("ab")>>>>),
   Dict(<<<<"lookAtHorizontalInner",
            Dict(<<<<"curve", List(<<Num(1), Num(2)>>)>>, <<"xRange", Num(3)>>,
                   <<"yRange", Str("4")>>>>)>>,
          <<"lookAtVerticalUp", Num(1)>>>>)}

BlendShapeInputs ==
  {None, Num(1), Bool(TRUE), List(<<>>), Str("ab"), List(<<Num(1), Bool(TRUE)>>),
   Dict(<<<<"name", Str("Joy")>>>>),
   List(<<Dict(<<<<"name", Str("Joy")>>, <<"presetName", Str("joy")>>,
                 <<"isBinary", Bool(TRUE)>>,
                 <<"binds", List(<<Dict(<<<<"mesh", Str("Face")>>, <<"index", Str("Joy")>>,
                                          <<"weight", Num(1)>>>>),
                                   Dict(<<<<"mesh", Str("Gone")>>, <<"weight", Str("1")>>>>),
                                   Num(1)>>)>>,
                 <<"materialValues",
                   List(<<Dict(<<<<"materialName", Str("Skin")>>,
                                 <<"propertyName", Str("_Color")>>,
                                 <<"targetValue", List(<<Num(1), Str("x")>>)>>>>),
                          Str("ab")>>)>>>>),
          Num(1)>>),
   List(<<Dict(<<<<"name", Num(5)>>>>), Dict(<<<<"name", Str("Fun")>>>>)>>),
   List(<<Dict(<<<<"presetName", Bool(TRUE)>>, <<"isBinary", Num(1)>>>>)>>),
   List(<<Dict(<<<<"binds", List(<<Dict(<<<<"mesh", Str("Body")>>,
                                          <<"index", Str("Joy")>>,
                                          <<"weight", Num(1)>>>>)>>)>>,
                 <<"isBinary", Bool(TRUE)>>>>),
          Dict(<<>>)>>),
   List(<<Dict(<<<<"isBinary", Str("true")>>, <<"binds", Num(1)>>>>)>>)}

SpringInputs ==
  {None, Num(1), Bool(TRUE), Str("ab"), List(<<Num(1), Bool(TRUE)>>),
   List(<<Num(1), Dict(<<>>)>>),
   List(<<Dict(<<<<"comment", Str("hair")>>, <<"stiffiness", Num(2)>>,
                 <<"gravityDir", Vec(1, 2, 3)>>, <<"center", Str("Hips")>>,
                 <<"bones", List(<<Str("Head"), Num(1)>>)>>,
                 <<"colliderGroups",
                   List(<<Str("Hips"), Str("Tail"), Num(1), Str("Head"),
                          Str("Hips")>>)>>>>)>>),
   List(<<Dict(<<<<"comment", Num(1)>>, <<"stiffiness", Str("2")>>,
                 <<"gravityPower", Bool(TRUE)>>,
                 <<"gravityDir", List(<<Num(1), Num(2), Num(3)>>)>>,
                 <<"center", Num(1)>>, <<"hitRadius", None>>,
                 <<"colliderGroups", Str("ab")>>>>),
          Dict(<<<<"gravityDir", Vec(4, 5, 6)>>, <<"colliderGroups", Num(1)>>,
                 <<"dragForce", Num(3)>>>>)>>)}

MetaInputs ==
  {NoMeta, ("author" :> Str("Alice")) @@ ("title" :> Num(3)) @@ ("texture" :> Str("Thumb")),
   ("author" :> TextRef("a")) @@ ("title" :> Str("T")) @@ ("texture" :> Str("Gone"))}

ChildSeqs == UNION {{Named(k) : k \in [1..n -> ChildKinds]} : n \in 0..MaxChildren}

NoSections == NoSectionsAtAll

FieldRigs ==
  {Rig(m, NoSections, NoDataProps, <<>>) : m \in MetaInputs}
    \cup {Rig(NoMeta, Sections(b, None, None, None), NoDataProps, <<>>) :
            b \in BlendShapeInputs}
    \cup {Rig(NoMeta, Sections(None, f, None, None), NoDataProps, <<>>) :
            f \in FirstPersonInputs}
    \cup {Rig(NoMeta, Sections(None, None, h, None), NoDataProps, <<>>) :
            h \in HumanoidInputs}
    \cup {Rig(NoMeta, Sections(None, None, None, s), NoDataProps, c) :
            s \in SpringInputs, c \in ChildSeqs}

InitFields ==
  /\ addon_version = <<1, 0, 0>>
  /\ armature \in FieldRigs
  /\ vrm0 \in InitialDocs
  /\ uuid_counter = 1
  /\ initial = vrm0
  /\ hist = <<>>
  /\ bpy = FactoryHost
  /\ objs = <<>>

\* migrate_vrm0_meta(ext.vrm0.meta, armature)
CallMeta ==
  /\ hist = <<>>
  /\ Record("meta",
            [PassState(vrm0, addon_version, uuid_counter) EXCEPT
               !.doc.meta = migrate_vrm0_meta(@, armature)])

\* migrate_vrm0_blend_shape_groups(groups, read_textblock_json(..))
CallBlendShapeGroups ==
  /\ hist = <<>>
  /\ Record("blend_shape_groups",
            WithBlendShapeGroups(
              PassState(vrm0, addon_version, uuid_counter),
              migrate_vrm0_blend_shape_groups(
                vrm0.blend_shape_master.blend_shape_groups,
                read_textblock_json(armature, "blendshape_group"))))

\* migrate_vrm0_first_person(first_person, read_textblock_json(..))
CallFirstPerson ==
  /\ hist = <<>>
  /\ Record("first_person",
            [PassState(vrm0, addon_version, uuid_counter) EXCEPT
               !.doc.first_person =
                   migrate_vrm0_first_person(
                     @, read_textblock_json(armature, "firstPerson_params"))])

\* migrate_vrm0_humanoid(humanoid, read_textblock_json(..))
CallHumanoid ==
  /\ hist = <<>>
  /\ Record("humanoid",
            [PassState(vrm0, addon_version, uuid_counter) EXCEPT
               !.doc.humanoid =
                   migrate_vrm0_humanoid(
                     @, read_textblock_json(armature, "humanoid_params"))])

\* migrate_vrm0_secondary_animation(secondary_animation, read_textblock_json(..), armature)
CallSecondaryAnimation ==
  /\ hist = <<>>
  /\ Record("secondary_animation",
            WithSecondaryAnimation(
              PassState(vrm0, addon_version, uuid_counter),
              migrate_vrm0_secondary_animation(
                vrm0.secondary_animation,
                read_textblock_json(armature, "spring_bone"), armature, uuid_counter)))

NextFields ==
  \/ CallMeta
  \/ CallBlendShapeGroups
  \/ CallFirstPerson
  \/ CallHumanoid
  \/ CallSecondaryAnimation

SpecFields == InitFields /\ [][NextFields]_vars

(***************************************************************************)
(* Properties.                                                              *)
(***************************************************************************)
\* the document without what uuid.uuid4() draws at random: uuids, and the
\* uuid part of generated names and of the references that hold them
NoUuid(name) == IF name = NoName THEN NoName ELSE <<name[1]>>

Normalized(doc) ==
  [doc EXCEPT
     !.secondary_animation.collider_groups =
         [i \in 1..Len(@) |-> [@[i] EXCEPT !.uuid = 0, !.name = NoUuid(@)]],
     !.secondary_animation.bone_groups =
         [i \in 1..Len(@) |->
            [@[i] EXCEPT !.collider_groups = [r \in 1..Len(@) |-> NoUuid(@[r])]]]]

\* the bone reference of the humanoid head role
HeadNode(doc) ==
  LET hbs == doc.humanoid.human_bones
      hits == {i \in 1..Len(hbs) : hbs[i].bone = "head"}
  IN IF hits = {} THEN ""
     ELSE hbs[CHOOSE i \in hits : \A k \in hits : i <= k].node

\* (major, minor, patch) at or past (2, 0, 1) in lexicographic order
PastGate(v) ==
  v \in {<<2, 0, 1>>, <<2, 1, 0>>, <<3, 0, 0>>}
    \/ v[1] > 2 \/ (v[1] = 2 /\ (v[2] > 0 \/ v[3] >= 1))

\* C1: running migrate twice in succession leaves the normalized document
\* after the second run identical to the document after the first run, for
\* every rig and every starting version.
C1_SecondRunChangesNothing ==
  (Len(hist) = 2 /\ hist[1].op = "migrate" /\ hist[2].op = "migrate")
    => Normalized(hist[2].doc) = Normalized(hist[1].doc)

\* C2: migrate_legacy_custom_properties writes nothing exactly when the
\* version is at or past (2, 0, 1) in lexicographic order, and executes the
\* six migration steps for every lower version.
C2_GateDecidesThePass ==
  \A i \in 1..Len(hist) :
    hist[i].op = "legacy" =>
      IF PastGate(addon_version)
      THEN hist[i].doc = Before(i) /\ hist[i].steps = 0
      ELSE hist[i].steps = 6

\* C3: from a fresh rig at (1, 0, 0) with no attachments and the one legacy
\* attribute head = "Head", a single migrate ends with the head role and the
\* first-person bone both "Head" and the version still (1, 0, 0).
C3_HeadBackfilledInOneRun ==
  (/\ initial = DefaultVrm0
   /\ armature = Rig(NoMeta, NoSectionsAtAll, ("head" :> Str("Head")) @@ NoDataProps, <<>>)
   /\ Len(hist) = 1
   /\ hist[1].op = "migrate"
   /\ addon_version = <<1, 0, 0>>)
    => /\ HeadNode(vrm0) = "Head"
       /\ vrm0.first_person.first_person_bone = "Head"

\* the cleanup of migrate as seen in the document it leaves
CleanedUp(doc, arm) ==
  /\ {doc.humanoid.human_bones[j].bone : j \in 1..Len(doc.humanoid.human_bones)}
       = {all_names[j] : j \in 1..Len(all_names)}
  /\ Len(doc.humanoid.human_bones) = Len(all_names)
  /\ \A j \in 1..Len(doc.secondary_animation.collider_groups) :
       doc.secondary_animation.collider_groups[j].node \in arm.bones
         => doc.secondary_animation.collider_groups[j].refreshed
  /\ \A j \in 1..Len(doc.secondary_animation.bone_groups) :
       doc.secondary_animation.bone_groups[j].center \in arm.bones \cup {""}
         => doc.secondary_animation.bone_groups[j].refreshed
  /\ doc.humanoid.last_bone_names = arm.bones

\* what only the version-gated steps 1-6 write
GatedPart(doc) ==
  <<doc.meta, doc.blend_shape_master, doc.first_person.first_person_bone_offset,
    doc.first_person.mesh_annotations, doc.humanoid.nums,
    Len(doc.secondary_animation.collider_groups),
    Len(doc.secondary_animation.bone_groups),
    [j \in 1..Len(doc.humanoid.human_bones) |-> doc.humanoid.human_bones[j].node]>>

\* C4: every invocation of migrate, at or past the gate as well as below it,
\* runs the human-bone fixup, refreshes every collider group and bone group
\* and re-derives last_bone_names from the live rig; at or past the gate the
\* gated steps write nothing.
C4_CleanupOnEveryInvocation ==
  \A i \in 1..Len(hist) :
    hist[i].op = "migrate" =>
      /\ CleanedUp(hist[i].doc, armature)
      /\ PastGate(addon_version) =>
           /\ hist[i].steps = 0
           /\ GatedPart(hist[i].doc)
                = GatedPart([Before(i) EXCEPT
                               !.humanoid.human_bones = fixup_human_bones(@)])

\* C5: neither migrate nor migrate_legacy_custom_properties writes
\* addon_version: it keeps the value it had before the first invocation.
C5_VersionNeverWritten == [][addon_version' = addon_version]_vars

C5_Witness ==
  /\ Len(hist) = 2
  /\ hist[1].op = "migrate"
  /\ hist[1].steps = 6
  /\ hist[2].op = "legacy"
  /\ hist[2].steps = 6
  /\ addon_version = <<2, 0, 0>>

\* the JSON value a section's migrator is handed, and the elements of a list
SectionJson(key) == read_textblock_json(armature, key)
ItemsOf(x) == IF IsIterable(x) THEN Iter(x) ELSE <<>>
Field(d, key) == IF IsDict(d) THEN Get(d, key) ELSE None

\* C6: a legacy value whose JSON type differs from the expected one (string,
\* number or boolean; a JSON boolean is not a number) leaves the destination
\* field at its previous value, and no migrator raises.
C6_MismatchedTypeKeepsField ==
  \A i \in 1..Len(hist) :
    LET before == Before(i)
        after == hist[i].doc
        h == SectionJson("humanoid_params")
        f == SectionJson("firstPerson_params")
        bs == ItemsOf(SectionJson("blendshape_group"))
        sp == ItemsOf(SectionJson("spring_bone"))
        nb == Len(before.blend_shape_master.blend_shape_groups)
        ns == Len(before.secondary_animation.bone_groups)
    IN /\ ~hist[i].raised
       /\ (hist[i].op = "meta") =>
            \A k \in MetaStringKeys :
              (armature.props[k].t # "str") => after.meta.strs[k] = before.meta.strs[k]
       /\ (hist[i].op = "humanoid") =>
            /\ \A k \in HumanoidNumberKeySet :
                 (Field(h, k).t # "num") => after.humanoid.nums[k] = before.humanoid.nums[k]
            /\ (Field(h, "hasTranslationDoF").t # "bool") =>
                 after.humanoid.has_translation_dof = before.humanoid.has_translation_dof
       /\ (hist[i].op = "first_person") =>
            ((Field(f, "firstPersonBone").t # "str") =>
               after.first_person.first_person_bone = before.first_person.first_person_bone)
       /\ (hist[i].op = "blend_shape_groups") =>
            \A e \in 1..Len(bs) :
              LET g == after.blend_shape_master.blend_shape_groups[nb + e]
              IN /\ (Field(bs[e], "name").t # "str") => g.name = DefaultBlendShapeGroup.name
                 /\ (Field(bs[e], "presetName").t # "str") =>
                      g.preset_name = DefaultBlendShapeGroup.preset_name
                 /\ (Field(bs[e], "isBinary").t # "bool") =>
                      g.is_binary = DefaultBlendShapeGroup.is_binary
                 /\ \A b \in 1..Len(ItemsOf(Field(bs[e], "binds"))) :
                      (Field(ItemsOf(Field(bs[e], "binds"))[b], "weight").t # "num") =>
                        g.binds[b].weight = DefaultBind.weight
       /\ (hist[i].op = "secondary_animation") =>
            \A e \in 1..Len(sp) :
              LET g == after.secondary_animation.bone_groups[ns + e]
              IN /\ (Field(sp[e], "comment").t # "str") => g.comment = ""
                 /\ (Field(sp[e], "center").t # "str") => g.center = ""
                 /\ (Field(sp[e], "stiffiness").t # "num") => g.stiffiness = 0
                 /\ (Field(sp[e], "gravityPower").t # "num") => g.gravity_power = 0
                 /\ (Field(sp[e], "dragForce").t # "num") => g.drag_force = 0
                 /\ (Field(sp[e], "hitRadius").t # "num") => g.hit_radius = 0

\* C7: after a pass aborted by a fault, retrying the pass to completion
\* yields the normalized document one uninterrupted pass on the original
\* rig would have produced.
C7_RetryEqualsOnePass ==
  (Len(hist) = 2 /\ hist[1].op = "fault" /\ hist[2].op = "legacy" /\ ~hist[2].raised)
    => Normalized(hist[2].doc)
         = Normalized(LegacySteps(PassState(initial, addon_version, 1), armature,
                                  1, NumLegacySteps).doc)

\* the positions of the rig's children that are collider markers
Markers ==
  {c \in 1..Len(armature.children) :
     /\ armature.children[c].type = "EMPTY"
     /\ armature.children[c].empty_display_type = "SPHERE"
     /\ armature.children[c].parent_type = "BONE"
     /\ armature.children[c].parent_bone \in RigBones}

\* C8: on a document without collider groups the reconstruction yields one
\* collider group per distinct parent bone of the markers (EMPTY, SPHERE,
\* bone-parented, bone in the rig), its node that bone and its colliders the
\* markers of that bone in scan order; no other child is in any group.
C8_OneGroupPerMarkerBone ==
  \A i \in 1..Len(hist) :
    (hist[i].op = "secondary_animation"
       /\ Before(i).secondary_animation.collider_groups = <<>>) =>
      LET cgs == hist[i].doc.secondary_animation.collider_groups
          bones == {armature.children[c].parent_bone : c \in Markers}
      IN /\ Len(cgs) = Cardinality(bones)
         /\ {cgs[g].node : g \in 1..Len(cgs)} = bones
         /\ \A g \in 1..Len(cgs) :
              /\ {cgs[g].colliders[x] : x \in 1..Len(cgs[g].colliders)}
                   = {c \in Markers : armature.children[c].parent_bone = cgs[g].node}
              /\ \A x, y \in 1..Len(cgs[g].colliders) :
                   x < y => cgs[g].colliders[x] < cgs[g].colliders[y]

C8_Witness ==
  /\ Len(hist) = 1
  /\ hist[1].op = "secondary_animation"
  /\ initial.secondary_animation.collider_groups = <<>>
  /\ Len(vrm0.secondary_animation.collider_groups) = 2
  /\ vrm0.secondary_animation.collider_groups[1].colliders = <<1, 3>>
  /\ vrm0.secondary_animation.collider_groups[2].colliders = <<2>>

\* C9: each string of a legacy colliderGroups list appends exactly one
\* reference, to the first collider group in list order whose node value
\* equals it, and nothing when there is none or the entry is not a string;
\* references keep the legacy order and nothing raises.
C9_ReferencesResolveByNode ==
  \A i \in 1..Len(hist) :
    hist[i].op = "secondary_animation" =>
      LET cgs == hist[i].doc.secondary_animation.collider_groups
          sp == ItemsOf(SectionJson("spring_bone"))
          ns == Len(Before(i).secondary_animation.bone_groups)
      IN /\ ~hist[i].raised
         /\ Len(hist[i].doc.secondary_animation.bone_groups) = ns + Len(sp)
         /\ \A e \in 1..Len(sp) :
              LET refs == hist[i].doc.secondary_animation.bone_groups[ns + e].collider_groups
                  names == ItemsOf(Field(sp[e], "colliderGroups"))
                  matched == {x \in 1..Len(names) :
                                /\ IsStr(names[x])
                                /\ \E g \in 1..Len(cgs) : cgs[g].node = names[x].v}
                  nth(r) == CHOOSE x \in matched :
                              Cardinality({y \in matched : y < x}) = r - 1
                  firstOf(n) == CHOOSE g \in 1..Len(cgs) :
                                  /\ cgs[g].node = n
                                  /\ \A k \in 1..(g - 1) : cgs[k].node # n
              IN /\ Len(refs) = Cardinality(matched)
                 /\ \A r \in 1..Len(refs) : refs[r] = cgs[firstOf(names[nth(r)].v)].name

C9_Witness ==
  /\ Len(hist) = 1
  /\ hist[1].op = "secondary_animation"
  /\ Len(vrm0.secondary_animation.collider_groups) = 3
  /\ vrm0.secondary_animation.collider_groups[1].node = "Head"
  /\ vrm0.secondary_animation.collider_groups[3].node = "Head"
  /\ Len(vrm0.secondary_animation.bone_groups) = 2
  /\ vrm0.secondary_animation.bone_groups[2].collider_groups
       = <<<<"Hips", 1>>, <<"Head", 0>>, <<"Hips", 1>>>>

\* C10: firstPersonBoneOffset and gravityDir are stored with the second and
\* third components swapped, (x, y, z) as (x, z, y); a legacy value that is
\* not a valid 3-vector leaves the destination vector unchanged.
C10_AxisSwap ==
  \A i \in 1..Len(hist) :
    LET before == Before(i)
        after == hist[i].doc
        f == SectionJson("firstPerson_params")
        off == vrm_json_vector3_to_tuple(Field(f, "firstPersonBoneOffset"))
        sp == ItemsOf(SectionJson("spring_bone"))
        ns == Len(before.secondary_animation.bone_groups)
    IN /\ hist[i].op = "first_person" =>
            after.first_person.first_person_bone_offset
              = IF off.ok THEN <<off.val[1], off.val[3], off.val[2]>>
                ELSE before.first_person.first_person_bone_offset
       /\ hist[i].op = "secondary_animation" =>
            /\ \A e \in 1..ns :
                 after.secondary_animation.bone_groups[e].gravity_dir
                   = before.secondary_animation.bone_groups[e].gravity_dir
            /\ \A e \in 1..Len(sp) :
                 LET dir == vrm_json_vector3_to_tuple(Field(sp[e], "gravityDir"))
                 IN after.secondary_animation.bone_groups[ns + e].gravity_dir
                      = IF dir.ok THEN <<dir.val[1], dir.val[3], dir.val[2]>>
                        ELSE DefaultBoneGroup.gravity_dir

C10_Witness ==
  /\ Len(hist) = 1
  /\ hist[1].op = "first_person"
  /\ initial.first_person.first_person_bone_offset = <<7, 8, 9>>
  /\ Field(SectionJson("firstPerson_params"), "firstPersonBoneOffset") = Vec(1, 2, 3)
  /\ vrm0.first_person.first_person_bone_offset = <<1, 3, 2>>

\* the e-th record a call appended to a list that held n records before it
Appended(list, n, e) == list[n + e]
HasAppended(list, n, e) == n + e <= Len(list)

\* C11: a legacy dictionary that lacks a key leaves the corresponding field
\* at the value it had before the migrator ran, and a field whose key is
\* present with the expected type is assigned, independently for each field
\* of the humanoid, first-person, blend-shape-group and bone-group records.
C11_MissingKeyKeepsField ==
  \A i \in 1..Len(hist) :
    LET before == Before(i)
        after == hist[i].doc
        h == SectionJson("humanoid_params")
        f == SectionJson("firstPerson_params")
        bs == ItemsOf(SectionJson("blendshape_group"))
        sp == ItemsOf(SectionJson("spring_bone"))
        nb == Len(before.blend_shape_master.blend_shape_groups)
        ns == Len(before.secondary_animation.bone_groups)
        groups == after.blend_shape_master.blend_shape_groups
        bone_groups == after.secondary_animation.bone_groups
    IN /\ (hist[i].op = "humanoid" /\ IsDict(h)) =>
            /\ \A k \in HumanoidNumberKeySet :
                 /\ IsNone(Get(h, k)) => after.humanoid.nums[k] = before.humanoid.nums[k]
                 /\ Get(h, k).t = "num" => after.humanoid.nums[k] = Get(h, k).v
            /\ IsNone(Get(h, "hasTranslationDoF")) =>
                 after.humanoid.has_translation_dof = before.humanoid.has_translation_dof
            /\ IsBool(Get(h, "hasTranslationDoF")) =>
                 after.humanoid.has_translation_dof = Get(h, "hasTranslationDoF").v
       /\ (hist[i].op = "first_person" /\ IsDict(f)) =>
            /\ IsNone(Get(f, "firstPersonBone")) =>
                 after.first_person.first_person_bone = before.first_person.first_person_bone
            /\ IsStr(Get(f, "firstPersonBone")) =>
                 after.first_person.first_person_bone = Get(f, "firstPersonBone").v
            /\ IsNone(Get(f, "firstPersonBoneOffset")) =>
                 after.first_person.first_person_bone_offset
                   = before.first_person.first_person_bone_offset
            /\ IsNone(Get(f, "meshAnnotations")) =>
                 after.first_person.mesh_annotations = before.first_person.mesh_annotations
            /\ IsNone(Get(f, "lookAtTypeName")) =>
                 after.first_person.look_at_type_name = before.first_person.look_at_type_name
            /\ \A k \in LookAtKeys :
                 IsNone(Get(f, k)) =>
                   after.first_person.look_at[k] = before.first_person.look_at[k]
       /\ hist[i].op = "blend_shape_groups" =>
            \A e \in 1..Len(bs) :
              IsDict(bs[e]) =>
                /\ HasAppended(groups, nb, e)
                /\ IsNone(Get(bs[e], "name")) =>
                     Appended(groups, nb, e).name = DefaultBlendShapeGroup.name
                /\ IsStr(Get(bs[e], "name")) =>
                     Appended(groups, nb, e).name = Get(bs[e], "name").v
                /\ IsNone(Get(bs[e], "presetName")) =>
                     Appended(groups, nb, e).preset_name = DefaultBlendShapeGroup.preset_name
                /\ IsNone(Get(bs[e], "binds")) => Appended(groups, nb, e).binds = <<>>
                /\ IsNone(Get(bs[e], "materialValues")) =>
                     Appended(groups, nb, e).material_values = <<>>
                /\ IsNone(Get(bs[e], "isBinary")) =>
                     Appended(groups, nb, e).is_binary = DefaultBlendShapeGroup.is_binary
                /\ IsBool(Get(bs[e], "isBinary")) =>
                     Appended(groups, nb, e).is_binary = Get(bs[e], "isBinary").v
       /\ hist[i].op = "secondary_animation" =>
            \A e \in 1..Len(sp) :
              IsDict(sp[e]) =>
                /\ HasAppended(bone_groups, ns, e)
                /\ IsNone(Get(sp[e], "comment")) =>
                     Appended(bone_groups, ns, e).comment = DefaultBoneGroup.comment
                /\ IsStr(Get(sp[e], "comment")) =>
                     Appended(bone_groups, ns, e).comment = Get(sp[e], "comment").v
                /\ IsNone(Get(sp[e], "center")) =>
                     Appended(bone_groups, ns, e).center = DefaultBoneGroup.center
                /\ IsStr(Get(sp[e], "center")) =>
                     Appended(bone_groups, ns, e).center = Get(sp[e], "center").v
                /\ IsNone(Get(sp[e], "stiffiness")) =>
                     Appended(bone_groups, ns, e).stiffiness = DefaultBoneGroup.stiffiness
                /\ Get(sp[e], "stiffiness").t = "num" =>
                     Appended(bone_groups, ns, e).stiffiness = Get(sp[e], "stiffiness").v
                /\ IsNone(Get(sp[e], "gravityPower")) =>
                     Appended(bone_groups, ns, e).gravity_power
                       = DefaultBoneGroup.gravity_power
                /\ IsNone(Get(sp[e], "gravityDir")) =>
                     Appended(bone_groups, ns, e).gravity_dir = DefaultBoneGroup.gravity_dir
                /\ IsNone(Get(sp[e], "dragForce")) =>
                     Appended(bone_groups, ns, e).drag_force = DefaultBoneGroup.drag_force
                /\ Get(sp[e], "dragForce").t = "num" =>
                     Appended(bone_groups, ns, e).drag_force = Get(sp[e], "dragForce").v
                /\ IsNone(Get(sp[e], "hitRadius")) =>
                     Appended(bone_groups, ns, e).hit_radius = DefaultBoneGroup.hit_radius
                /\ IsNone(Get(sp[e], "bones")) => Appended(bone_groups, ns, e).bones = <<>>
                /\ IsNone(Get(sp[e], "colliderGroups")) =>
                     Appended(bone_groups, ns, e).collider_groups = <<>>

(***************************************************************************)
(* The ways a section's custom property can be set, for the passes that     *)
(* exercise read_textblock_json: not set, a number, a str naming no text    *)
(* datablock, a str naming a datablock that is not JSON, a str naming a     *)
(* JSON datablock, and a pointer to a datablock of either kind.             *)
(***************************************************************************)
AttributeForms ==
  {"unset", "number", "missing", "broken", "named", "text", "broken_text"}

\* the JSON each section's datablock holds
SectionContent ==
  Sections(List(<<Dict(<<<<"name", Str("Joy")>>>>)>>),
           Dict(<<<<"firstPersonBone", Str("Hips")>>>>),
           Dict(<<<<"armStretch", Num(2)>>>>),
           List(<<Dict(<<<<"comment", Str("hair")>>>>)>>))

\* bpy.data.texts: one JSON datablock per section and one that is not JSON
ReadTexts ==
  [n \in TextKeys \cup {"broken"} |->
     IF n = "broken" THEN BrokenText ELSE JsonText(SectionContent[n])]

AttributeOf(form, key) ==
  CASE form = "unset" -> None
    [] form = "number" -> Num(1)
    [] form = "missing" -> Str("gone")
    [] form = "broken" -> Str("broken")
    [] form = "named" -> Str(key)
    [] form = "text" -> TextRef(key)
    [] form = "broken_text" -> TextRef("broken")

ReadRigs ==
  {RigWith([k \in TextKeys |-> AttributeOf(forms[k], k)] @@ NoMeta, ReadTexts,
           NoDataProps, c) :
     forms \in [TextKeys -> AttributeForms],
     c \in {<<>>, Named(<<Child("EMPTY", "SPHERE", "BONE", "Head")>>)}}

InitRead ==
  /\ addon_version = <<1, 0, 0>>
  /\ armature \in ReadRigs
  /\ vrm0 \in InitialDocs
  /\ uuid_counter = 1
  /\ initial = vrm0
  /\ hist = <<>>
  /\ bpy = FactoryHost
  /\ objs = <<>>

NextRead == MigrateLegacyCustomProperties

SpecRead == InitRead /\ [][NextRead]_vars

\* the datablock a custom property value designates, if any
Designates(arm, value) ==
  value.t = "text" \/ (value.t = "str" /\ value.v \in DOMAIN arm.texts)

\* the rig with one custom property removed
Without(arm, key) == [arm EXCEPT !.props[key] = None]

\* C12 as stated: the value is returned only for a pointer to, or the name
\* of, a datablock that parses; otherwise None is returned and the pass
\* completes with the corresponding section left as it was, no record added
\* to any of its lists.
C12_AbsentLeavesSectionAtDefaults ==
  \A i \in 1..Len(hist) :
    hist[i].op = "legacy" =>
      \A k \in TextKeys :
        LET a == armature.props[k]
            parses == Designates(armature, a) /\ armature.texts[a.v].valid
        IN /\ parses => SectionJson(k) = armature.texts[a.v].json
           /\ ~parses =>
                /\ IsNone(SectionJson(k))
                /\ ~hist[i].raised
                /\ k = "blendshape_group" =>
                     hist[i].doc.blend_shape_master = Before(i).blend_shape_master
                /\ k = "firstPerson_params" =>
                     hist[i].doc.first_person = Before(i).first_person
                /\ k = "humanoid_params" => hist[i].doc.humanoid = Before(i).humanoid
                /\ k = "spring_bone" =>
                     /\ Len(hist[i].doc.secondary_animation.collider_groups)
                          = Len(Before(i).secondary_animation.collider_groups)
                     /\ Len(hist[i].doc.secondary_animation.bone_groups)
                          = Len(Before(i).secondary_animation.bone_groups)

\* C12, amended: the value is returned only for a pointer to, or the name
\* of, a datablock that parses; otherwise None is returned and the pass
\* goes on as if the property were not set: the fields that attachment
\* drives are left as they were and no bone group is created, while
\* collider groups are still reconstructed from the markers.
C12_AbsentIsTreatedAsUnset ==
  \A i \in 1..Len(hist) :
    hist[i].op = "legacy" =>
      \A k \in TextKeys :
        LET a == armature.props[k]
            parses == Designates(armature, a) /\ armature.texts[a.v].valid
            unset == LegacySteps(PassState(Before(i), addon_version, 1),
                                 Without(armature, k), 1, NumLegacySteps)
        IN /\ parses => SectionJson(k) = armature.texts[a.v].json
           /\ ~parses =>
                /\ IsNone(SectionJson(k))
                /\ Normalized(hist[i].doc) = Normalized(unset.doc)
                /\ hist[i].raised = unset.raised
                /\ k = "blendshape_group" =>
                     /\ ~hist[i].raised
                     /\ hist[i].doc.blend_shape_master = Before(i).blend_shape_master
                /\ k = "firstPerson_params" =>
                     hist[i].doc.first_person = Before(i).first_person
                /\ k = "humanoid_params" =>
                     /\ hist[i].doc.humanoid.nums = Before(i).humanoid.nums
                     /\ hist[i].doc.humanoid.has_translation_dof
                          = Before(i).humanoid.has_translation_dof
                /\ k = "spring_bone" =>
                     Len(hist[i].doc.secondary_animation.bone_groups)
                       = Len(Before(i).secondary_animation.bone_groups)

C12_Witness ==
  /\ Len(hist) = 1
  /\ hist[1].op = "legacy"
  /\ armature.props["blendshape_group"] = TextRef("blendshape_group")
  /\ armature.props["firstPerson_params"] = Str("broken")
  /\ armature.props["humanoid_params"] = Str("gone")
  /\ armature.props["spring_bone"] = Num(1)
  /\ Len(armature.children) = 1
  /\ Len(vrm0.blend_shape_master.blend_shape_groups) = 1
  /\ Len(vrm0.secondary_animation.collider_groups)
       = Len(initial.secondary_animation.collider_groups) + 1
  /\ vrm0.first_person = initial.first_person

(***************************************************************************)
(* Passes over rigs that carry only legacy per-role attributes, on          *)
(* documents whose roles are unassigned, partly assigned, or not yet        *)
(* created: step 6 of migrate_legacy_custom_properties is what acts.        *)
(***************************************************************************)
Roles == {all_names[i] : i \in 1..Len(all_names)}

\* armature.data.get(role): not set, empty, a bone name, or not a str
RoleAttributes == {None, Str(""), Str("Head"), Str("Hips"), Num(1)}

HumanBones(hips, head, leftUpperArm) ==
  <<[bone |-> "hips", node |-> hips], [bone |-> "head", node |-> head],
    [bone |-> "leftUpperArm", node |-> leftUpperArm]>>

RoleDocs ==
  {DefaultVrm0,
   EditedVrm0,
   [DefaultVrm0 EXCEPT !.humanoid.human_bones = HumanBones("", "", "")],
   [DefaultVrm0 EXCEPT !.humanoid.human_bones = HumanBones("Hips", "Head", "")],
   [DefaultVrm0 EXCEPT !.humanoid.human_bones =
                           HumanBones("", "", "") \o <<[bone |-> "head", node |-> ""]>>]}

RoleRigs == {Rig(NoMeta, NoSectionsAtAll, d, <<>>) : d \in [Roles -> RoleAttributes]}

InitRoles ==
  /\ addon_version \in {<<1, 0, 0>>, <<2, 0, 0>>}
  /\ armature \in RoleRigs
  /\ vrm0 \in RoleDocs
  /\ uuid_counter = 1
  /\ initial = vrm0
  /\ hist = <<>>
  /\ bpy = FactoryHost
  /\ objs = <<>>

NextRoles == Migrate \/ MigrateLegacyCustomProperties

SpecRoles == InitRoles /\ [][NextRoles]_vars

\* the legacy attribute of a role names a bone
NamesBone(role) ==
  IsStr(armature.data_props[role]) /\ armature.data_props[role].v # ""

\* the position of a role in all_names
RoleIndex(role) == CHOOSE r \in 1..Len(all_names) : all_names[r] = role

\* the role is the first one in all_names order whose attribute names its bone
FirstToName(role) ==
  /\ NamesBone(role)
  /\ \A r \in 1..(RoleIndex(role) - 1) :
       ~(NamesBone(all_names[r])
           /\ armature.data_props[all_names[r]].v = armature.data_props[role].v)

\* the entry of human_bones step 6 writes for a role: the first with that role
IsFirstEntry(hbs, j) == \A k \in 1..(j - 1) : hbs[k].bone # hbs[j].bone

\* the entry is one step 6 writes
Written(hbs, j) ==
  hbs[j].bone \in Roles /\ IsFirstEntry(hbs, j) /\ FirstToName(hbs[j].bone)

\* what step 6 does to the roles: a written entry takes the name its role's
\* attribute gives, every other entry keeps its value
FirstRoleToNameWins(was, now) ==
  /\ Len(now) = Len(was)
  /\ \A j \in 1..Len(now) :
       /\ now[j].bone = was[j].bone
       /\ now[j].node = IF Written(was, j) THEN armature.data_props[now[j].bone].v
                        ELSE was[j].node

\* C13: step 6 writes a bone name to the first role whose attribute
\* names it and to no other; roles naming an already-used bone, or with a
\* missing, empty or non-string attribute, keep their value; after the step
\* no two roles hold the same non-empty bone name.
C13_NoBoneOnTwoRoles ==
  \A i \in 1..Len(hist) :
    (hist[i].op = "legacy" /\ hist[i].steps = NumLegacySteps) =>
      LET was == Before(i).humanoid.human_bones
          now == hist[i].doc.humanoid.human_bones
      IN /\ FirstRoleToNameWins(was, now)
         /\ \A j, k \in 1..Len(now) :
              (now[j].bone # now[k].bone /\ now[j].node # "") =>
                now[j].node # now[k].node

\* C14: a role whose bone reference is non-empty when step 6 starts keeps
\* that value, whatever the legacy attribute of the role names.
C14_AssignedRoleIsKept ==
  \A i \in 1..Len(hist) :
    (hist[i].op = "legacy" /\ hist[i].steps = NumLegacySteps) =>
      \A j \in 1..Len(Before(i).humanoid.human_bones) :
        Before(i).humanoid.human_bones[j].node # "" =>
          hist[i].doc.humanoid.human_bones[j].node
            = Before(i).humanoid.human_bones[j].node

\* C15: after a call of migrate_vrm0_secondary_animation the collider-group
\* list holds only groups reconstructed from the markers by that call, and
\* every reference of a bone group the call created names one of them.
C15_ReferencesToThisPassOnly ==
  \A i \in 1..Len(hist) :
    hist[i].op = "secondary_animation" =>
      LET cgs == hist[i].doc.secondary_animation.collider_groups
          bgs == hist[i].doc.secondary_animation.bone_groups
          n == Len(Before(i).secondary_animation.collider_groups)
          ns == Len(Before(i).secondary_animation.bone_groups)
          fresh == {g \in 1..Len(cgs) :
                      /\ g > n
                      /\ \A k \in 1..n :
                           cgs[g].uuid # Before(i).secondary_animation.collider_groups[k].uuid}
      IN /\ fresh = 1..Len(cgs)
         /\ \A e \in (ns + 1)..Len(bgs) :
              \A r \in 1..Len(bgs[e].collider_groups) :
                \E g \in fresh : cgs[g].name = bgs[e].collider_groups[r]

\* C16: every element of an iterable legacy field appends one record, in
\* input order, whatever the element is: mesh annotations, blend-shape groups
\* with their binds and material values, bone groups with their bones; an
\* entry that is not a dictionary gets a record with empty nested lists.
C16_OneRecordPerElement ==
  \A i \in 1..Len(hist) :
    LET before == Before(i)
        after == hist[i].doc
        f == SectionJson("firstPerson_params")
        ma == ItemsOf(Field(f, "meshAnnotations"))
        nm == Len(before.first_person.mesh_annotations)
        bs == ItemsOf(SectionJson("blendshape_group"))
        nb == Len(before.blend_shape_master.blend_shape_groups)
        groups == after.blend_shape_master.blend_shape_groups
        sp == ItemsOf(SectionJson("spring_bone"))
        ns == Len(before.secondary_animation.bone_groups)
        bone_groups == after.secondary_animation.bone_groups
    IN /\ hist[i].op = "first_person" =>
            /\ Len(after.first_person.mesh_annotations) = nm + Len(ma)
            /\ \A e \in 1..Len(ma) :
                 LET rec == after.first_person.mesh_annotations[nm + e]
                 IN /\ ~IsDict(ma[e]) => rec = DefaultMeshAnnotation
                    /\ IsStr(Field(ma[e], "firstPersonFlag")) =>
                         rec.first_person_flag = Get(ma[e], "firstPersonFlag").v
       /\ hist[i].op = "blend_shape_groups" =>
            /\ Len(groups) = nb + Len(bs)
            /\ \A e \in 1..Len(bs) :
                 LET rec == groups[nb + e]
                     binds == ItemsOf(Field(bs[e], "binds"))
                     mvs == ItemsOf(Field(bs[e], "materialValues"))
                 IN /\ Len(rec.binds) = Len(binds)
                    /\ Len(rec.material_values) = Len(mvs)
                    /\ IsStr(Field(bs[e], "name")) => rec.name = Get(bs[e], "name").v
                    /\ \A b \in 1..Len(binds) :
                         /\ ~IsDict(binds[b]) => rec.binds[b] = DefaultBind
                         /\ Field(binds[b], "weight").t = "num" =>
                              rec.binds[b].weight = Get(binds[b], "weight").v
                    /\ \A m \in 1..Len(mvs) :
                         /\ ~IsDict(mvs[m]) => rec.material_values[m] = DefaultMaterialValue
                         /\ IsStr(Field(mvs[m], "propertyName")) =>
                              rec.material_values[m].property_name
                                = Get(mvs[m], "propertyName").v
                         /\ Len(rec.material_values[m].target_value)
                              = Len(ItemsOf(Field(mvs[m], "targetValue")))
       /\ hist[i].op = "secondary_animation" =>
            /\ Len(bone_groups) = ns + Len(sp)
            /\ \A e \in 1..Len(sp) :
                 LET rec == bone_groups[ns + e]
                     bones == ItemsOf(Field(sp[e], "bones"))
                 IN /\ Len(rec.bones) = Len(bones)
                    /\ IsStr(Field(sp[e], "comment")) => rec.comment = Get(sp[e], "comment").v
                    /\ \A b \in 1..Len(bones) :
                         rec.bones[b] = IF IsStr(bones[b]) THEN bones[b].v ELSE ""

\* a raw input that is not a dictionary and holds none
HoldsNoDictionary(x) ==
  ~IsDict(x) /\ \A e \in 1..Len(ItemsOf(x)) : ~IsDict(ItemsOf(x)[e])

\* the records of a list with their derived state set aside
Unrefreshed(list) == [e \in 1..Len(list) |-> [list[e] EXCEPT !.refreshed = FALSE]]

\* C17 as stated: a raw input that is not a dictionary (absent, a number, a
\* boolean, a string, a list of non-dictionaries) leaves the destination
\* record of each field migrator unchanged: no scalar is written and no
\* record is appended to any list.
C17_NotADictionaryIsNoOp ==
  \A i \in 1..Len(hist) :
    LET before == Before(i)
        after == hist[i].doc
    IN /\ (hist[i].op = "humanoid" /\ HoldsNoDictionary(SectionJson("humanoid_params")))
            => after.humanoid = before.humanoid
       /\ (hist[i].op = "first_person"
             /\ HoldsNoDictionary(SectionJson("firstPerson_params")))
            => after.first_person = before.first_person
       /\ (hist[i].op = "blend_shape_groups"
             /\ HoldsNoDictionary(SectionJson("blendshape_group")))
            => after.blend_shape_master = before.blend_shape_master
       /\ (hist[i].op = "secondary_animation"
             /\ HoldsNoDictionary(SectionJson("spring_bone")))
            => /\ Len(after.secondary_animation.collider_groups)
                    = Len(before.secondary_animation.collider_groups)
               /\ Unrefreshed(after.secondary_animation.bone_groups)
                    = Unrefreshed(before.secondary_animation.bone_groups)

\* C17, amended: the humanoid and first-person migrators leave their record
\* unchanged when the raw input is not a dictionary; the two list migrators
\* append nothing when the raw input is not iterable and one default record
\* per element when it is a string or a list of non-dictionaries, writing no
\* other field; the secondary-animation migrator reconstructs the collider
\* groups from the markers whatever its input is.
C17_NotADictionaryWritesNoField ==
  \A i \in 1..Len(hist) :
    LET before == Before(i)
        after == hist[i].doc
        bs == ItemsOf(SectionJson("blendshape_group"))
        sp == ItemsOf(SectionJson("spring_bone"))
    IN /\ (hist[i].op = "humanoid" /\ HoldsNoDictionary(SectionJson("humanoid_params")))
            => after.humanoid = before.humanoid
       /\ (hist[i].op = "first_person"
             /\ HoldsNoDictionary(SectionJson("firstPerson_params")))
            => after.first_person = before.first_person
       /\ (hist[i].op = "blend_shape_groups"
             /\ HoldsNoDictionary(SectionJson("blendshape_group")))
            => /\ ~hist[i].raised
               /\ after.blend_shape_master.blend_shape_groups
                    = before.blend_shape_master.blend_shape_groups
                        \o [e \in 1..Len(bs) |-> DefaultBlendShapeGroup]
       /\ (hist[i].op = "secondary_animation"
             /\ HoldsNoDictionary(SectionJson("spring_bone")))
            => /\ Unrefreshed(after.secondary_animation.bone_groups)
                    = Unrefreshed(before.secondary_animation.bone_groups)
                        \o [e \in 1..Len(sp) |-> DefaultBoneGroup]
               /\ Len(after.secondary_animation.collider_groups)
                    = Len(before.secondary_animation.collider_groups)
                        + Cardinality({armature.children[c].parent_bone : c \in Markers})

C17_Witness ==
  /\ Len(hist) = 1
  /\ hist[1].op = "blend_shape_groups"
  /\ SectionJson("blendshape_group") = List(<<Num(1), Bool(TRUE)>>)
  /\ vrm0.blend_shape_master.blend_shape_groups
       = <<DefaultBlendShapeGroup, DefaultBlendShapeGroup>>

(***************************************************************************)
(* is_unnecessary, called on documents as they are found: human_bones is a  *)
(* list, which holds one entry per role only after fixup_human_bones.       *)
(***************************************************************************)
HumanBoneLists ==
  {<<>>, HumanBones("", "", ""), HumanBones("Hips", "Head", ""),
   HumanBones("", "", "") \o <<[bone |-> "head", node |-> "Head"]>>,
   HumanBones("", "Head", "") \o <<[bone |-> "head", node |-> ""]>>,
   <<[bone |-> "hips", node |-> "Hips"]>>}

BackfillDocs ==
  {[DefaultVrm0 EXCEPT !.first_person.first_person_bone = b,
                       !.humanoid.human_bones = hbs] :
     b \in {"", "Hips"}, hbs \in HumanBoneLists}

InitBackfill ==
  /\ addon_version \in {<<1, 0, 0>>, <<2, 0, 1>>}
  /\ armature = Rig(NoMeta, NoSectionsAtAll, NoDataProps, <<>>)
  /\ vrm0 \in BackfillDocs
  /\ uuid_counter = 1
  /\ initial = vrm0
  /\ hist = <<>>
  /\ bpy = FactoryHost
  /\ objs = <<>>

\* is_unnecessary(vrm0): reads the document, writes nothing
IsUnnecessary ==
  /\ Len(hist) < MaxCalls
  /\ Record("is_unnecessary", PassState(vrm0, addon_version, uuid_counter))

NextBackfill == IsUnnecessary \/ Migrate

SpecBackfill == InitBackfill /\ [][NextBackfill]_vars

\* the backfill step of migrate would change the first-person bone: it is
\* empty and the first entry with role head has a non-empty bone
BackfillWouldChange(doc) ==
  /\ doc.first_person.first_person_bone = ""
  /\ \E j \in 1..Len(doc.humanoid.human_bones) :
       /\ doc.humanoid.human_bones[j].bone = "head"
       /\ IsFirstEntry(doc.humanoid.human_bones, j)
       /\ doc.humanoid.human_bones[j].node # ""

\* C18: is_unnecessary is falsy exactly when the backfill step of migrate
\* would change the first-person bone, and truthy once the step has run.
C18_IsUnnecessaryAgreesWithBackfill ==
  \A i \in 1..Len(hist) :
    hist[i].op = "is_unnecessary" =>
      /\ BackfillWouldChange(hist[i].doc)
           <=> (BackfillFirstPersonBone(hist[i].doc) # hist[i].doc)
      /\ ~is_unnecessary(hist[i].doc) <=> BackfillWouldChange(hist[i].doc)
      /\ is_unnecessary(BackfillFirstPersonBone(hist[i].doc))

(***************************************************************************)
(* Registration with the host (io_scene_vrm/registration.py).  A class is   *)
(* named by the add-on that owns it and its place in that add-on's list.    *)
(* The host raises on registering a translation or a class twice, on        *)
(* unregistering a class it does not hold and on list.remove of a missing   *)
(* handler; removing a missing draw function from a menu is silent.         *)
(***************************************************************************)
\* len(classes), registration.py:54-204
NumClasses == 145
\* number of host calls followed in one behaviour
MaxHostCalls == 3

addon_package_name == "io_scene_vrm"

Class(addon, i) == [addon |-> addon, index |-> i]

classes == [i \in 1..NumClasses |-> Class(addon_package_name, i)]

\* extension.VrmAddonArmatureExtensionPropertyGroup, the last of the list
VrmAddonArmatureExtensionPropertyGroup == classes[NumClasses]

\* version.version()
version_version == <<2, 0, 1>>

InitVersions == {version_version, <<2, 0, 0>>}

Elements(list) == {list[i] : i \in 1..Len(list)}

\* list.remove(x) where x is in the list: drops its first occurrence
RemoveFirst(list, x) ==
  LET k == CHOOSE i \in 1..Len(list) :
             list[i] = x /\ \A j \in 1..(i - 1) : list[j] # x
  IN SubSeq(list, 1, k - 1) \o SubSeq(list, k + 1, Len(list))

\* Menu.remove(draw_func): silent when the function is not there
MenuRemove(list, x) == IF x \in Elements(list) THEN RemoveFirst(list, x) ELSE list

Call(name, i) == [call |-> name, index |-> i]

\* what a call of register or unregister leaves: the host, whether it raised
\* and the host calls it made, in order
Outcome(host, raised, calls) == [host |-> host, raised |-> raised, calls |-> calls]

\* the classes of the list in the order given, up to the first one the host
\* holds already (all of them when it holds none)
UntilHeld(host, order) ==
  LET held == {n \in 1..NumClasses : classes[order[n]] \in Elements(host.classes)}
      stop == IF held = {} THEN NumClasses + 1
              ELSE CHOOSE n \in held : \A m \in held : n <= m
  IN [stop |-> stop, raised |-> held # {}]

InOrder == [n \in 1..NumClasses |-> n]

Reversed == [n \in 1..NumClasses |-> NumClasses + 1 - n]

\* the loop over reversed(classes), for comparison
RegisterClassesReversed(out) ==
  LET until == UntilHeld(out.host, Reversed)
  IN Outcome(
       [out.host EXCEPT
          !.classes = @ \o [n \in 1..(until.stop - 1) |-> classes[Reversed[n]]]],
       until.raised,
       out.calls \o
         [n \in 1..(IF until.raised THEN until.stop ELSE NumClasses) |->
            Call("register_class", Reversed[n])])

\* for cls in classes: bpy.utils.register_class(cls)
RegisterClasses(out) ==
  LET until == UntilHeld(out.host, InOrder)
  IN Outcome(
       [out.host EXCEPT
          !.classes = @ \o [n \in 1..(until.stop - 1) |-> classes[InOrder[n]]]],
       until.raised,
       out.calls \o
         [n \in 1..(IF until.raised THEN until.stop ELSE NumClasses) |->
            Call("register_class", InOrder[n])])

\* register, past its sanity check
RegisterAll(host) ==
  IF addon_package_name \in host.translations
  THEN Outcome(host, TRUE, <<Call("translations.register", 0)>>)
  ELSE
    LET translated ==
          Outcome([host EXCEPT !.translations = @ \cup {addon_package_name}],
                  FALSE, <<Call("translations.register", 0)>>)
        registered == RegisterClasses(translated)
    IN IF registered.raised THEN registered
       ELSE Outcome(
              [registered.host EXCEPT
                 !.Armature_vrm_addon_extension = TRUE,
                 !.TOPBAR_MT_file_import = Append(@, "menu_import"),
                 !.TOPBAR_MT_file_export = Append(@, "menu_export"),
                 !.VIEW3D_MT_armature_add = Append(@, "add_armature"),
                 !.load_post = Append(@, "load_post")],
              FALSE,
              registered.calls \o
                <<Call("Armature.vrm_addon_extension =", 0),
                  Call("TOPBAR_MT_file_import.append", 0),
                  Call("TOPBAR_MT_file_export.append", 0),
                  Call("VIEW3D_MT_armature_add.append", 0),
                  Call("load_post.append", 0)>>)

\* register without its sanity check, for comparison
register_any_version(host, init_version) == RegisterAll(host)

\* register(init_version)
register(host, init_version) ==
  IF init_version # version_version
  THEN Outcome(host, TRUE, <<>>)
  ELSE RegisterAll(host)

\* load_post(_dummy): the definition bound when bpy.app.handlers.persistent
\* is truthy calls the three functions in turn, the other one raises
\* NotImplementedError
load_post(host, persistent) ==
  IF persistent
  THEN Outcome(host, FALSE,
               <<Call("shader.add_shaders", 0),
                 Call("migration.migrate_all_objects", 0),
                 Call("migration.setup_subscription", 0)>>)
  ELSE Outcome(host, TRUE, <<>>)

\* the classes of reversed(classes), up to the first one the host does not hold
UntilMissing(host) ==
  LET missing == {n \in 1..NumClasses :
                    classes[Reversed[n]] \notin Elements(host.classes)}
      stop == IF missing = {} THEN NumClasses + 1
              ELSE CHOOSE n \in missing : \A m \in missing : n <= m
  IN [stop |-> stop, raised |-> missing # {}]

\* for cls in reversed(classes): bpy.utils.unregister_class(cls)
UnregisterClasses(out) ==
  LET until == UntilMissing(out.host)
      gone == {classes[Reversed[n]] : n \in 1..(until.stop - 1)}
  IN Outcome(
       [out.host EXCEPT !.classes = SelectSeq(@, LAMBDA c : c \notin gone)],
       until.raised,
       out.calls \o
         [n \in 1..(IF until.raised THEN until.stop ELSE NumClasses) |->
            Call("unregister_class", Reversed[n])])

\* unregister()
unregister(host) ==
  IF "load_post" \notin Elements(host.load_post)
  THEN Outcome(host, TRUE,
               <<Call("teardown_subscription", 0), Call("load_post.remove", 0)>>)
  ELSE
    LET removed ==
          [host EXCEPT
             !.load_post = RemoveFirst(@, "load_post"),
             !.VIEW3D_MT_armature_add = MenuRemove(@, "add_armature"),
             !.TOPBAR_MT_file_export = MenuRemove(@, "menu_export"),
             !.TOPBAR_MT_file_import = MenuRemove(@, "menu_import"),
             !.Armature_vrm_addon_extension = FALSE]
        calls ==
          <<Call("teardown_subscription", 0), Call("load_post.remove", 0),
            Call("VIEW3D_MT_armature_add.remove", 0),
            Call("TOPBAR_MT_file_export.remove", 0),
            Call("TOPBAR_MT_file_import.remove", 0)>>
            \o (IF host.Armature_vrm_addon_extension
                THEN <<Call("del Armature.vrm_addon_extension", 0)>>
                ELSE <<>>)
        unregistered == UnregisterClasses(Outcome(removed, FALSE, calls))
    IN IF unregistered.raised THEN unregistered
       ELSE Outcome(
              [unregistered.host EXCEPT
                 !.translations = @ \ {addon_package_name}],
              FALSE,
              Append(unregistered.calls, Call("translations.unregister", 0)))

\* hosts in which other add-ons are already enabled
Hosts ==
  {[FactoryHost EXCEPT
      !.translations = t,
      !.classes = c,
      !.TOPBAR_MT_file_import = i,
      !.TOPBAR_MT_file_export = e,
      !.load_post = l] :
     t \in {{}, {"other_addon"}},
     c \in {<<>>, <<Class("other_addon", 1)>>},
     i \in {<<>>, <<"other_import">>},
     e \in {<<>>, <<"other_export">>},
     l \in {<<>>, <<"other_load_post">>}}

InitHost ==
  /\ bpy \in Hosts
  /\ hist = <<>>
  /\ addon_version = version_version
  /\ armature = Rig(NoMeta, NoSectionsAtAll, NoDataProps, <<>>)
  /\ vrm0 = DefaultVrm0
  /\ uuid_counter = 1
  /\ initial = vrm0
  /\ objs = <<>>

\* what a host call leaves behind
RecordHost(op, arg, out) ==
  /\ bpy' = out.host
  /\ hist' = Append(hist, [op |-> op, arg |-> arg, raised |-> out.raised,
                           calls |-> out.calls, before |-> bpy,
                           after |-> out.host])
  /\ UNCHANGED <<addon_version, armature, vrm0, uuid_counter, initial, objs>>

\* the host enables the add-on
Register ==
  /\ Len(hist) < MaxHostCalls
  /\ \E init_version \in InitVersions :
       RecordHost("register", init_version, register(bpy, init_version))

\* the host disables the add-on
Unregister ==
  /\ Len(hist) < MaxHostCalls
  /\ RecordHost("unregister", <<>>, unregister(bpy))

\* the host loads a file and runs its load_post handlers; what the handler
\* of the add-on does is done to the file, the registries stay as they are.
\* The host's bpy.app.handlers.persistent is a decorator, a truthy value.
LoadPost ==
  /\ Len(hist) < MaxHostCalls
  /\ "load_post" \in Elements(bpy.load_post)
  /\ RecordHost("load_post", <<>>, load_post(bpy, TRUE))

NextHost == Register \/ Unregister \/ LoadPost

SpecHost == InitHost /\ [][NextHost]_vars

\* the calls of a trace with the given name, as the class indices in order
IndicesOf(calls, name) ==
  LET named == SelectSeq(calls, LAMBDA c : c.call = name)
  IN [n \in 1..Len(named) |-> named[n].index]

\* hist[i] is a register that went through and hist[j] the first unregister
\* after it
UndoneBy(i, j) ==
  /\ i < j
  /\ hist[i].op = "register" /\ ~hist[i].raised
  /\ hist[j].op = "unregister"
  /\ \A k \in (i + 1)..(j - 1) : hist[k].op = "load_post"

\* C19: unregister undoes register in reverse order: the host is as it was
\* before register, every class is unregistered in the reverse of its
\* registration order, and the pointer property is removed before any class
\* is unregistered.
C19_UnregisterUndoesRegister ==
  \A i, j \in 1..Len(hist) :
    UndoneBy(i, j) =>
      /\ ~hist[j].raised
      /\ hist[j].after = hist[i].before
      /\ addon_package_name \notin hist[j].after.translations
      /\ \A n \in 1..NumClasses : classes[n] \notin Elements(hist[j].after.classes)
      /\ ~hist[j].after.Armature_vrm_addon_extension
      /\ "menu_import" \notin Elements(hist[j].after.TOPBAR_MT_file_import)
      /\ "menu_export" \notin Elements(hist[j].after.TOPBAR_MT_file_export)
      /\ "add_armature" \notin Elements(hist[j].after.VIEW3D_MT_armature_add)
      /\ "load_post" \notin Elements(hist[j].after.load_post)
      /\ LET reg == IndicesOf(hist[i].calls, "register_class")
             unreg == IndicesOf(hist[j].calls, "unregister_class")
         IN /\ Len(reg) = NumClasses
            /\ Len(unreg) = NumClasses
            /\ \A n \in 1..NumClasses : unreg[n] = reg[NumClasses + 1 - n]
      /\ \E d \in 1..Len(hist[j].calls) :
           /\ hist[j].calls[d].call = "del Armature.vrm_addon_extension"
           /\ \A u \in 1..Len(hist[j].calls) :
                hist[j].calls[u].call = "unregister_class" => d < u

\* an enabled add-on, whose file load handler has run, has been disabled
\* in a host that holds other add-ons
C19_Witness ==
  /\ Len(hist) = 3
  /\ UndoneBy(1, 3)
  /\ hist[2].op = "load_post"
  /\ ~hist[3].raised
  /\ hist[1].before.classes # <<>>
  /\ hist[1].before.load_post # <<>>
  /\ hist[1].after # hist[1].before

(***************************************************************************)
(* Classification of constraints for export (io_scene_vrm/editor/search.py) *)
(* An object has a name, a type, the bone names of its data, a list of      *)
(* constraints and, as an armature, pose bones with constraints of their    *)
(* own.  A constraint names its target object; "" is no target.             *)
(***************************************************************************)
\* longest constraint list of an owner
MaxConstraints == 2

ConstraintOf(type, target, subtarget) ==
  [type |-> type, is_valid |-> TRUE, mute |-> FALSE, target |-> target,
   subtarget |-> subtarget, mix_mode |-> "ADD",
   use_x |-> TRUE, use_y |-> TRUE, use_z |-> TRUE,
   invert_x |-> FALSE, invert_y |-> FALSE, invert_z |-> FALSE,
   owner_space |-> "LOCAL", target_space |-> "LOCAL", head_tail |-> 0]

\* constraint.target in objs
TargetIn(constraint, objects) ==
  \E i \in 1..Len(objects) : objects[i].name = constraint.target

TargetOf(constraint, objects) ==
  objects[CHOOSE i \in 1..Len(objects) : objects[i].name = constraint.target]

\* int(use_x) + int(use_y) + int(use_z)
UsedAxes(constraint) ==
  (IF constraint.use_x THEN 1 ELSE 0) + (IF constraint.use_y THEN 1 ELSE 0)
    + (IF constraint.use_z THEN 1 ELSE 0)

is_roll_constraint(constraint, objects) ==
  /\ constraint.type = "COPY_ROTATION"
  /\ constraint.is_valid
  /\ ~constraint.mute
  /\ constraint.target # ""
  /\ TargetIn(constraint, objects)
  /\ constraint.mix_mode = "ADD"
  /\ UsedAxes(constraint) = 1
  /\ constraint.owner_space = "LOCAL"
  /\ constraint.target_space = "LOCAL"
  /\ \/ TargetOf(constraint, objects).type # "ARMATURE"
     \/ constraint.subtarget \in TargetOf(constraint, objects).bones

is_aim_constraint(constraint, objects) ==
  /\ constraint.type = "DAMPED_TRACK"
  /\ constraint.is_valid
  /\ ~constraint.mute
  /\ constraint.target # ""
  /\ TargetIn(constraint, objects)
  /\ \/ TargetOf(constraint, objects).type # "ARMATURE"
     \/ /\ constraint.subtarget \in TargetOf(constraint, objects).bones
        /\ constraint.head_tail = 0

is_rotation_constraint(constraint, objects) ==
  /\ constraint.type = "COPY_ROTATION"
  /\ constraint.is_valid
  /\ ~constraint.mute
  /\ constraint.target # ""
  /\ TargetIn(constraint, objects)
  /\ ~constraint.invert_x
  /\ ~constraint.invert_y
  /\ ~constraint.invert_z
  /\ constraint.mix_mode = "ADD"
  /\ constraint.use_x
  /\ constraint.use_y
  /\ constraint.use_z
  /\ constraint.owner_space = "LOCAL"
  /\ constraint.target_space = "LOCAL"
  /\ \/ TargetOf(constraint, objects).type # "ARMATURE"
     \/ constraint.subtarget \in TargetOf(constraint, objects).bones

\* the inner loop of both functions: the map the first matching constraint
\* of an owner goes to, and that constraint
RECURSIVE FirstMatch(_, _)
FirstMatch(constraints, objects) ==
  IF constraints = <<>> THEN [map |-> "none"]
  ELSE IF is_roll_constraint(Head(constraints), objects)
  THEN [map |-> "roll", constraint |-> Head(constraints)]
  ELSE IF is_aim_constraint(Head(constraints), objects)
  THEN [map |-> "aim", constraint |-> Head(constraints)]
  ELSE IF is_rotation_constraint(Head(constraints), objects)
  THEN [map |-> "rotation", constraint |-> Head(constraints)]
  ELSE FirstMatch(Tail(constraints), objects)

\* a dict filled by d[owner.name] = constraint over the owners in order
MapOf(owners, objects, map) ==
  LET last(n) == CHOOSE i \in 1..Len(owners) :
                   /\ owners[i].name = n
                   /\ FirstMatch(owners[i].constraints, objects).map = map
                   /\ \A j \in (i + 1)..Len(owners) :
                        ~(/\ owners[j].name = n
                          /\ FirstMatch(owners[j].constraints, objects).map = map)
  IN [n \in {owners[i].name : i \in
               {k \in 1..Len(owners) :
                  FirstMatch(owners[k].constraints, objects).map = map}} |->
        FirstMatch(owners[last(n)].constraints, objects).constraint]

ExportConstraint(roll, aim, rotation) ==
  [raised |-> FALSE, roll_constraints |-> roll, aim_constraints |-> aim,
   rotation_constraints |-> rotation]

NoMap == [n \in {} |-> 0]

\* export_bone_constraints(objs, armature)
export_bone_constraints(objects, arm) ==
  ExportConstraint(MapOf(arm.pose_bones, objects, "roll"),
                   MapOf(arm.pose_bones, objects, "aim"),
                   MapOf(arm.pose_bones, objects, "rotation"))

\* export_object_constraints(objs): the three dicts start empty and a match
\* is stored by roll_constraints[obj.name].append(constraint), a lookup of a
\* key the dict does not hold: the first match of any object raises KeyError
export_object_constraints(objects) ==
  IF \E i \in 1..Len(objects) :
       FirstMatch(objects[i].constraints, objects).map # "none"
  THEN [raised |-> TRUE, roll_constraints |-> NoMap, aim_constraints |-> NoMap,
        rotation_constraints |-> NoMap]
  ELSE ExportConstraint(NoMap, NoMap, NoMap)

Constraints ==
  {ConstraintOf("COPY_ROTATION", "Armature", "Hips"),
   [ConstraintOf("COPY_ROTATION", "Armature", "Hips") EXCEPT
      !.use_y = FALSE, !.use_z = FALSE],
   ConstraintOf("DAMPED_TRACK", "Body", ""),
   [ConstraintOf("COPY_ROTATION", "Body", "") EXCEPT
      !.use_y = FALSE, !.use_z = FALSE, !.mute = TRUE],
   ConstraintOf("DAMPED_TRACK", "Armature", "Tail")}

ConstraintLists ==
  UNION {[1..n -> Constraints] : n \in 0..MaxConstraints}

Object(name, type, bones, constraints, pose_bones) ==
  [name |-> name, type |-> type, bones |-> bones, constraints |-> constraints,
   pose_bones |-> pose_bones]

PoseBone(name, constraints) == [name |-> name, constraints |-> constraints]

InitExport ==
  /\ \E cs, bs \in ConstraintLists :
       objs = <<Object("Body", "MESH", {}, cs, <<>>),
                Object("Armature", "ARMATURE", {"Hips", "Head"}, <<>>,
                       <<PoseBone("Hips", <<>>), PoseBone("Head", bs)>>)>>
  /\ hist = <<>>
  /\ bpy = FactoryHost
  /\ addon_version = version_version
  /\ armature = Rig(NoMeta, NoSectionsAtAll, NoDataProps, <<>>)
  /\ vrm0 = DefaultVrm0
  /\ uuid_counter = 1
  /\ initial = vrm0

\* what a call of an export function leaves behind
RecordExport(op, owners, out) ==
  /\ hist' = Append(hist, [op |-> op, raised |-> out.raised, owners |-> owners,
                           result |-> out])
  /\ UNCHANGED <<addon_version, armature, vrm0, uuid_counter, initial, bpy, objs>>

ExportObjectConstraints ==
  /\ Len(hist) < MaxCalls
  /\ RecordExport("export_object_constraints", objs,
                  export_object_constraints(objs))

ExportBoneConstraints ==
  /\ Len(hist) < MaxCalls
  /\ \E i \in 1..Len(objs) :
       /\ objs[i].type = "ARMATURE"
       /\ RecordExport("export_bone_constraints", objs[i].pose_bones,
                       export_bone_constraints(objs, objs[i]))

NextExport == ExportObjectConstraints \/ ExportBoneConstraints

SpecExport == InitExport /\ [][NextExport]_vars

Matches(constraint) ==
  \/ is_roll_constraint(constraint, objs)
  \/ is_aim_constraint(constraint, objs)
  \/ is_rotation_constraint(constraint, objs)

\* the map a matching constraint belongs to, roll before aim before rotation
MapFor(constraint) ==
  IF is_roll_constraint(constraint, objs) THEN "roll"
  ELSE IF is_aim_constraint(constraint, objs) THEN "aim" ELSE "rotation"

Recorded(result, map, owner, constraint) ==
  LET d == IF map = "roll" THEN result.roll_constraints
           ELSE IF map = "aim" THEN result.aim_constraints
           ELSE result.rotation_constraints
  IN owner \in DOMAIN d /\ d[owner] = constraint

InNoMap(result, owner) ==
  /\ owner \notin DOMAIN result.roll_constraints
  /\ owner \notin DOMAIN result.aim_constraints
  /\ owner \notin DOMAIN result.rotation_constraints

\* the result classifies every owner: its first matching constraint is in
\* the one map it belongs to, an owner without a match is in none
Classified(owners, result) ==
  \A i \in 1..Len(owners) :
    LET cs == owners[i].constraints
        matching == {k \in 1..Len(cs) : Matches(cs[k])}
    IN IF matching = {} THEN InNoMap(result, owners[i].name)
       ELSE LET k == CHOOSE m \in matching : \A n \in matching : m <= n
            IN \A map \in {"roll", "aim", "rotation"} :
                 Recorded(result, map, owners[i].name, cs[k])
                   <=> map = MapFor(cs[k])

\* C20: both export functions return without raising, and the result of
\* each records for every owner its first roll, aim or rotation constraint
\* under the owner's name in exactly one map, and nothing for an owner
\* without such a constraint.
C20_BothClassifyTheSameWay ==
  \A i \in 1..Len(hist) :
    hist[i].op \in {"export_object_constraints", "export_bone_constraints"} =>
      /\ ~hist[i].raised
      /\ Classified(hist[i].owners, hist[i].result)

\* everything register registers is held by the host
AllRegistered(host) ==
  /\ addon_package_name \in host.translations
  /\ \A n \in 1..NumClasses : classes[n] \in Elements(host.classes)
  /\ host.Armature_vrm_addon_extension
  /\ "menu_import" \in Elements(host.TOPBAR_MT_file_import)
  /\ "menu_export" \in Elements(host.TOPBAR_MT_file_export)
  /\ "add_armature" \in Elements(host.VIEW3D_MT_armature_add)
  /\ "load_post" \in Elements(host.load_post)

\* C21: register with a version other than version.version() raises before
\* any host call and leaves the host as it was; with the equal version
\* everything is registered, and the load_post handler, when the host runs
\* it, calls add_shaders, migrate_all_objects and setup_subscription in
\* that order.
C21_VersionMismatchHasNoEffect ==
  \A i \in 1..Len(hist) :
    /\ (hist[i].op = "register" /\ hist[i].arg # version_version) =>
         /\ hist[i].raised
         /\ hist[i].calls = <<>>
         /\ hist[i].after = hist[i].before
    /\ (hist[i].op = "register" /\ hist[i].arg = version_version) =>
         /\ AllRegistered(hist[i].after)
         /\ (addon_package_name \notin hist[i].before.translations
               => ~hist[i].raised)
    /\ hist[i].op = "load_post" =>
         /\ ~hist[i].raised
         /\ Len(hist[i].calls) = 3
         /\ hist[i].calls[1].call = "shader.add_shaders"
         /\ hist[i].calls[2].call = "migration.migrate_all_objects"
         /\ hist[i].calls[3].call = "migration.setup_subscription"

\* in a host that holds other add-ons, a register with the wrong version
\* was refused, one with the right version went through and the handler ran
C21_Witness ==
  /\ Len(hist) = 3
  /\ hist[1].op = "register" /\ hist[1].arg # version_version /\ hist[1].raised
  /\ hist[1].before.classes # <<>>
  /\ hist[1].before.TOPBAR_MT_file_import # <<>>
  /\ hist[2].op = "register" /\ hist[2].arg = version_version /\ ~hist[2].raised
  /\ hist[2].after # hist[2].before
  /\ hist[3].op = "load_post" /\ Len(hist[3].calls) = 3

====
